---- MODULE Spec2Model ----
(***************************************************************************)
(* Aurora-Font: the bounds-checked byte cursor (src/io/stream.rs), the     *)
(* byte-order helpers (src/io/endian.rs) and the header classifier         *)
(* (src/common/decode.rs).                                                 *)
(*                                                                         *)
(* Number representation.  The model checker's integers are 32-bit signed, *)
(* so the program's wider integers are held exactly, but not natively:     *)
(*   - a u32 is the pair <<hi, lo>> of its 16-bit halves                   *)
(*     (value = hi * 2^16 + lo);                                           *)
(*   - a usize / u64 is held by its two's-complement representative: a     *)
(*     value v < 2^31 is v itself, a value 2^64 - k (k <= 2^31) is -k, so  *)
(*     usize::MAX is -1.  Wrapping addition is then plain addition, and    *)
(*     the unsigned order and the overflow test are UsizeLt / overflows.   *)
(* Slices are sequences; Rust index i is TLA+ index i + 1.                 *)
(***************************************************************************)
EXTENDS Integers, Sequences, FiniteSets, TLC

\* ------------------------------------------------------------------ bounds
\* Length of the longest buffer the cursor operations run over.
MaxLen == 5
\* Number of bytes that follow the 4 signature bytes in the longest buffer
\* handed to the classifier.
MaxTail == 1
\* Huge usize arguments are usize::MAX - k for k in 0..MaxHuge.
MaxHuge == 1

\* ------------------------------------------------------- machine integers
\* Unsigned order on usize representatives.
UsizeLt(a, b) == IF (a >= 0) = (b >= 0) THEN a < b ELSE a >= 0
UsizeLe(a, b) == a = b \/ UsizeLt(a, b)

\* usize::min
usize_min(a, b) == IF UsizeLe(a, b) THEN a ELSE b

\* usize::saturating_sub
saturating_sub(a, b) == IF UsizeLt(a, b) THEN 0 ELSE a - b

\* a + b on usize leaves the range iff the true sum reaches 2^64.
overflows(a, b) ==
    IF a >= 0 /\ b >= 0 THEN FALSE
    ELSE IF a < 0 /\ b < 0 THEN TRUE
    ELSE a + b >= 0

\* The `+` operator on usize: with overflow checks (debug profile) an
\* overflowing sum panics, without them (release profile) it wraps.
add(a, b, oc) ==
    IF overflows(a, b) /\ oc THEN [panic |-> TRUE]
    ELSE [panic |-> FALSE, v |-> a + b]

\* u16::from_be_bytes / u16::from_le_bytes on a 2-byte sequence
u16_from_be_bytes(b) == b[1] * 256 + b[2]
u16_from_le_bytes(b) == b[2] * 256 + b[1]

\* u32::from_be_bytes / u32::from_le_bytes on a 4-byte sequence
u32_from_be_bytes(b) == <<b[1] * 256 + b[2], b[3] * 256 + b[4]>>
u32_from_le_bytes(b) == <<b[4] * 256 + b[3], b[2] * 256 + b[1]>>

\* `v as i8`, `v as i16`, `v as i32`: reinterpretation of the bit pattern
as_i8(v) == IF v >= 128 THEN v - 256 ELSE v
as_i16(v) == IF v >= 32768 THEN v - 65536 ELSE v
as_i32(v) == IF v[1] >= 32768 THEN (v[1] - 65536) * 65536 + v[2]
             ELSE v[1] * 65536 + v[2]

\* ----------------------------------------------------------------- errors
Ok(v) == [kind |-> "Ok", val |-> v]
Err(e) == [kind |-> "Err", err |-> e]
Panic == [kind |-> "Panic"]
Unit == <<>>

OutOfBounds(requested, available) ==
    [type |-> "OutOfBounds", requested |-> requested, available |-> available]
InvalidOffset(offset) == [type |-> "InvalidOffset", offset |-> offset]
InvalidInput(msg) == [type |-> "InvalidInput", msg |-> msg]
InvalidFormat == [type |-> "InvalidFormat"]

\* ----------------------------------------------------------------- state
\* stream: the FontDataStream (data, position, endianness);
\* overflow_checks: the build profile, TRUE when integer overflow panics;
\* call: the last call made (name, arguments, stream before it, result).
VARIABLES stream, overflow_checks, call, snft, par, sink, parser

vars == <<stream, overflow_checks, call, snft, par, sink, parser>>

\* &data[start..end] when 0 <= start <= end <= data.len()
Slice(d, start, end) == SubSeq(d, start + 1, end)

\* <[u8]>::get(start..end)
get_range(d, start, end) ==
    IF UsizeLt(end, start) \/ UsizeLt(Len(d), end) THEN [some |-> FALSE]
    ELSE [some |-> TRUE, v |-> Slice(d, start, end)]

\* <[u8]>::get(index)
get(d, index) ==
    IF UsizeLt(index, Len(d)) THEN [some |-> TRUE, v |-> d[index + 1]]
    ELSE [some |-> FALSE]

\* FontDataStream::new
new(data) == [data |-> data, position |-> 0, endianness |-> "BigEndian"]

\* FontDataStream::with_endianness
with_endianness(self, endianness) == [self EXCEPT !.endianness = endianness]

\* What a method leaves behind: the stream and the returned value.
Ret(self, ret) == [self |-> self, ret |-> ret]

\* FontDataStream::read_u8
read_u8(self) ==
    LET available == saturating_sub(Len(self.data), self.position) IN
    IF UsizeLe(1, available)
    THEN Ret([self EXCEPT !.position = @ + 1], Ok(self.data[self.position + 1]))
    ELSE Ret(self, Err(OutOfBounds(1, available)))

\* FontDataStream::read_u16
read_u16(self) ==
    LET available == saturating_sub(Len(self.data), self.position) IN
    IF UsizeLe(2, available)
    THEN LET bytes == Slice(self.data, self.position, self.position + 2) IN
         Ret([self EXCEPT !.position = @ + 2],
             Ok(IF self.endianness = "BigEndian" THEN u16_from_be_bytes(bytes)
                ELSE u16_from_le_bytes(bytes)))
    ELSE Ret(self, Err(OutOfBounds(2, available)))

\* read_u32 that forgets to advance.
read_u32_not_advancing(self) ==
    LET available == saturating_sub(Len(self.data), self.position) IN
    IF UsizeLe(4, available)
    THEN LET bytes == Slice(self.data, self.position, self.position + 4) IN
         Ret(self,
             Ok(IF self.endianness = "BigEndian" THEN u32_from_be_bytes(bytes)
                ELSE u32_from_le_bytes(bytes)))
    ELSE Ret(self, Err(OutOfBounds(4, available)))

\* FontDataStream::read_u32
read_u32(self) ==
    LET available == saturating_sub(Len(self.data), self.position) IN
    IF UsizeLe(4, available)
    THEN LET bytes == Slice(self.data, self.position, self.position + 4) IN
         Ret([self EXCEPT !.position = @ + 4],
             Ok(IF self.endianness = "BigEndian" THEN u32_from_be_bytes(bytes)
                ELSE u32_from_le_bytes(bytes)))
    ELSE Ret(self, Err(OutOfBounds(4, available)))

\* FontDataStream::read_i8 / read_i16 / read_i32: the unsigned read, with
\* an Ok value mapped through the cast.
read_i8(self) ==
    LET r == read_u8(self) IN
    Ret(r.self, IF r.ret.kind = "Ok" THEN Ok(as_i8(r.ret.val)) ELSE r.ret)
read_i16(self) ==
    LET r == read_u16(self) IN
    Ret(r.self, IF r.ret.kind = "Ok" THEN Ok(as_i16(r.ret.val)) ELSE r.ret)
read_i32(self) ==
    LET r == read_u32(self) IN
    Ret(r.self, IF r.ret.kind = "Ok" THEN Ok(as_i32(r.ret.val)) ELSE r.ret)

\* FontDataStream::skip
skip(self, bytes, oc) ==
    LET sum == add(self.position, bytes, oc) IN
    IF sum.panic THEN Ret(self, Panic)
    ELSE Ret([self EXCEPT !.position = usize_min(sum.v, Len(self.data))], Ok(Unit))

\* FontDataStream::reset
reset(self) == Ret([self EXCEPT !.position = 0], Ok(Unit))

\* seek without the clamp to the buffer length.
seek_unclamped(self, position) ==
    Ret([self EXCEPT !.position = position], Ok(Unit))

\* FontDataStream::seek
seek(self, position) ==
    Ret([self EXCEPT !.position = usize_min(position, Len(self.data))], Ok(Unit))

\* read_bytes that consumes what is left when it fails.
read_bytes_consuming(self, length) ==
    LET available == saturating_sub(Len(self.data), self.position) IN
    IF UsizeLe(length, available)
    THEN Ret([self EXCEPT !.position = @ + length],
             Ok(Slice(self.data, self.position, self.position + length)))
    ELSE Ret([self EXCEPT !.position = Len(self.data)],
             Err(OutOfBounds(length, available)))

\* FontDataStream::read_bytes
read_bytes(self, length) ==
    LET available == saturating_sub(Len(self.data), self.position) IN
    IF UsizeLe(length, available)
    THEN Ret([self EXCEPT !.position = @ + length],
             Ok(Slice(self.data, self.position, self.position + length)))
    ELSE Ret(self, Err(OutOfBounds(length, available)))

\* FontDataStream::peek_u8
peek_u8(self) ==
    LET available == saturating_sub(Len(self.data), self.position)
        b == get(self.data, self.position) IN
    Ret(self, IF b.some THEN Ok(b.v) ELSE Err(OutOfBounds(1, available)))

\* FontDataStream::peek_bytes
peek_bytes(self, length, oc) ==
    LET available == saturating_sub(Len(self.data), self.position)
        end == add(self.position, length, oc) IN
    IF end.panic THEN Ret(self, Panic)
    ELSE LET s == get_range(self.data, self.position, end.v) IN
         Ret(self, IF s.some THEN Ok(s.v)
                   ELSE Err(OutOfBounds(length, available)))

\* `if offset < len { len - offset } else { 0 }`
available_at(self, offset) ==
    IF UsizeLt(offset, Len(self.data)) THEN Len(self.data) - offset ELSE 0

\* FontDataStream::read_at_u8
read_at_u8(self, offset) ==
    LET b == get(self.data, offset) IN
    Ret(self, IF b.some THEN Ok(b.v)
              ELSE Err(OutOfBounds(1, available_at(self, offset))))

\* FontDataStream::read_at_u16
read_at_u16(self, offset, oc) ==
    LET end == add(offset, 2, oc) IN
    IF end.panic THEN Ret(self, Panic)
    ELSE LET s == get_range(self.data, offset, end.v) IN
         Ret(self, IF s.some
                   THEN Ok(IF self.endianness = "BigEndian"
                           THEN u16_from_be_bytes(s.v)
                           ELSE u16_from_le_bytes(s.v))
                   ELSE Err(OutOfBounds(2, available_at(self, offset))))

\* FontDataStream::read_at_u32
read_at_u32(self, offset, oc) ==
    LET end == add(offset, 4, oc) IN
    IF end.panic THEN Ret(self, Panic)
    ELSE LET s == get_range(self.data, offset, end.v) IN
         Ret(self, IF s.some
                   THEN Ok(IF self.endianness = "BigEndian"
                           THEN u32_from_be_bytes(s.v)
                           ELSE u32_from_le_bytes(s.v))
                   ELSE Err(OutOfBounds(4, available_at(self, offset))))

\* FontDataStream::slice_at
slice_at(self, offset, length, oc) ==
    LET end == add(offset, length, oc) IN
    IF end.panic THEN Ret(self, Panic)
    ELSE LET s == get_range(self.data, offset, end.v) IN
         Ret(self, IF s.some THEN Ok(s.v)
                   ELSE Err(OutOfBounds(length, available_at(self, offset))))

\* slice_range with `end < len` for `end <= len`.
slice_range_end_exclusive(self, start, end) ==
    LET len == Len(self.data) IN
    IF UsizeLt(end, start) THEN Ret(self, Err(InvalidOffset(start)))
    ELSE IF UsizeLt(end, len) THEN Ret(self, Ok(Slice(self.data, start, end)))
    ELSE LET available == IF UsizeLt(start, len) THEN len - start ELSE 0
             requested == saturating_sub(end, start) IN
         Ret(self, Err(OutOfBounds(requested, available)))

\* slice_range with the bounds test made before the start > end test.
slice_range_bounds_first(self, start, end) ==
    LET len == Len(self.data) IN
    IF ~UsizeLe(end, len)
    THEN LET available == IF UsizeLt(start, len) THEN len - start ELSE 0
             requested == saturating_sub(end, start) IN
         Ret(self, Err(OutOfBounds(requested, available)))
    ELSE IF UsizeLt(end, start) THEN Ret(self, Err(InvalidOffset(start)))
    ELSE Ret(self, Ok(Slice(self.data, start, end)))

\* FontDataStream::slice_range
slice_range(self, start, end) ==
    LET len == Len(self.data) IN
    IF UsizeLt(end, start) THEN Ret(self, Err(InvalidOffset(start)))
    ELSE IF UsizeLe(end, len) THEN Ret(self, Ok(Slice(self.data, start, end)))
    ELSE LET available == IF UsizeLt(start, len) THEN len - start ELSE 0
             requested == saturating_sub(end, start) IN
         Ret(self, Err(OutOfBounds(requested, available)))

\* FontDataStream::read_tag
read_tag(self) ==
    LET r == read_bytes(self, 4) IN
    IF r.ret.kind = "Err" THEN r
    ELSE Ret(r.self, Ok(<<r.ret.val[1], r.ret.val[2], r.ret.val[3], r.ret.val[4]>>))

\* <FontDataStream as std::io::Read>::read, for a destination of buf_len
\* bytes: returns the count and the bytes copied into buf[..count].
io_read(self, buf_len) ==
    LET bytes_to_read == usize_min(buf_len, Len(self.data) - self.position) IN
    Ret([self EXCEPT !.position = @ + bytes_to_read],
        Ok([n |-> bytes_to_read,
            buf |-> Slice(self.data, self.position, self.position + bytes_to_read)]))

\* i64::saturating_add; the operands the model draws are within 2^31 of
\* zero, where the sum never reaches the saturation bounds.
i64_saturating_add(a, b) == a + b

\* <FontDataStream as std::io::Seek>::seek; pos is a SeekFrom, held as
\* [from, offset].  A u64 offset exceeds i64::MAX iff its representative
\* is negative.
io_seek(self, pos) ==
    IF pos.from = "Start" /\ pos.offset < 0
    THEN Ret(self, Err(InvalidInput("seek offset out of range")))
    ELSE LET new_position ==
                 CASE pos.from = "Start" -> pos.offset
                   [] pos.from = "End" ->
                          i64_saturating_add(Len(self.data), pos.offset)
                   [] pos.from = "Current" ->
                          i64_saturating_add(self.position, pos.offset) IN
         IF new_position < 0
         THEN Ret(self, Err(InvalidInput("Seek before start")))
         ELSE LET p == usize_min(new_position, Len(self.data)) IN
              Ret([self EXCEPT !.position = p], Ok(p))

\* ------------------------------------------------------------- ByteOrder
\* ByteOrder::u16_from
u16_from(self, b) ==
    IF self = "BigEndian" THEN u16_from_be_bytes(b) ELSE u16_from_le_bytes(b)

\* u32_from with the byte order ignored.
u32_from_ignoring_order(self, b) == u32_from_be_bytes(b)

\* ByteOrder::u32_from
u32_from(self, b) ==
    IF self = "BigEndian" THEN u32_from_be_bytes(b) ELSE u32_from_le_bytes(b)

\* ByteOrder::read_u16_from_slice (None is [some |-> FALSE])
read_u16_from_slice(self, s) ==
    IF Len(s) >= 2 THEN [some |-> TRUE, v |-> u16_from(self, <<s[1], s[2]>>)]
    ELSE [some |-> FALSE]

\* ByteOrder::read_u32_from_slice
read_u32_from_slice(self, s) ==
    IF Len(s) >= 4
    THEN [some |-> TRUE, v |-> u32_from(self, <<s[1], s[2], s[3], s[4]>>)]
    ELSE [some |-> FALSE]

\* -------------------------------------------------------- classification
\* impl From<u32> for FontFileHeader
FontFileHeader_from(value) ==
    CASE value = <<1, 0>> -> "SFNT"             \* 0x00010000
      [] value = <<29810, 30053>> -> "TRUE"     \* 0x74727565
      [] value = <<29817, 28721>> -> "TYP1"     \* 0x74797031
      [] value = <<20308, 21583>> -> "OTTO"     \* 0x4F54544F
      [] value = <<30543, 17990>> -> "WOFF"     \* 0x774F4646
      [] value = <<30543, 17970>> -> "WOF2"     \* 0x774F4632
      [] value = <<29558, 26400>> -> "SVG"      \* 0x73766720
      [] OTHER -> "Unknown"

\* decode_font_type reading the signature in the cursor's byte order.
decode_font_type_cursor_order(stream_) ==
    LET r == slice_range(stream_, 0, 4) IN
    IF r.ret.kind = "Err" THEN r
    ELSE LET bytes == r.ret.val
             signature == u32_from(stream_.endianness,
                                   <<bytes[1], bytes[2], bytes[3], bytes[4]>>) IN
         Ret(r.self, Ok(FontFileHeader_from(signature)))

\* decode_font_type answering Unknown for a buffer too short to classify.
decode_font_type_lenient(stream_) ==
    LET r == slice_range(stream_, 0, 4) IN
    IF r.ret.kind = "Err" THEN Ret(r.self, Ok("Unknown"))
    ELSE LET bytes == r.ret.val
             signature == u32_from_be_bytes(<<bytes[1], bytes[2], bytes[3], bytes[4]>>) IN
         Ret(r.self, Ok(FontFileHeader_from(signature)))

\* decode_font_type
decode_font_type(stream_) ==
    LET r == slice_range(stream_, 0, 4) IN
    IF r.ret.kind = "Err" THEN r
    ELSE LET bytes == r.ret.val
             signature == u32_from_be_bytes(<<bytes[1], bytes[2], bytes[3], bytes[4]>>) IN
         Ret(r.self, Ok(FontFileHeader_from(signature)))

\* ------------------------------------------------------- table directory
\* An addition of u32 that stops at u32::MAX.
wrapping_add_saturating(a, b) ==
    LET lo == a[2] + b[2]
        hi == a[1] + b[1] + (lo \div 65536) IN
    IF hi >= 65536 THEN <<65535, 65535>> ELSE <<hi, lo % 65536>>

\* u32::wrapping_add on pairs of 16-bit halves
wrapping_add(a, b) ==
    LET lo == a[2] + b[2]
        hi == a[1] + b[1] + (lo \div 65536) IN
    <<hi % 65536, lo % 65536>>

\* The `+` operator on u32: the true sum reaches 2^32 iff the high halves
\* and the carry of the low halves reach 2^16.
add_u32(a, b, oc) ==
    IF a[1] + b[1] + ((a[2] + b[2]) \div 65536) >= 65536 /\ oc
    THEN [panic |-> TRUE]
    ELSE [panic |-> FALSE, v |-> wrapping_add(a, b)]

\* `v as usize` for a u32 v (a u32 below 2^31 is its own representative)
as_usize(v) == v[1] * 65536 + v[2]

\* One step of the lossy UTF-8 decoder on bytes b from index i (1-based):
\* the number of bytes taken and the character produced, U+FFFD (65533) for
\* a maximal invalid part.  at(k) is the byte at i + k, 0 past the end.
utf8_step(b, i) ==
    LET at(k) == IF i + k <= Len(b) THEN b[i + k] ELSE 0
        cont(k) == at(k) >= 128 /\ at(k) <= 191
        b0 == at(0)
        second ==
            \/ b0 = 224 /\ at(1) >= 160 /\ at(1) <= 191
            \/ b0 >= 225 /\ b0 <= 236 /\ cont(1)
            \/ b0 = 237 /\ at(1) >= 128 /\ at(1) <= 159
            \/ b0 >= 238 /\ b0 <= 239 /\ cont(1)
            \/ b0 = 240 /\ at(1) >= 144 /\ at(1) <= 191
            \/ b0 >= 241 /\ b0 <= 243 /\ cont(1)
            \/ b0 = 244 /\ at(1) >= 128 /\ at(1) <= 143
        bad(n) == [n |-> n, c |-> 65533] IN
    IF b0 < 128 THEN [n |-> 1, c |-> b0]
    ELSE IF b0 >= 194 /\ b0 <= 223
    THEN IF cont(1) THEN [n |-> 2, c |-> (b0 - 192) * 64 + (at(1) - 128)]
         ELSE bad(1)
    ELSE IF b0 >= 224 /\ b0 <= 239
    THEN IF ~second THEN bad(1)
         ELSE IF ~cont(2) THEN bad(2)
         ELSE [n |-> 3,
               c |-> (b0 - 224) * 4096 + (at(1) - 128) * 64 + (at(2) - 128)]
    ELSE IF b0 >= 240 /\ b0 <= 244
    THEN IF ~second THEN bad(1)
         ELSE IF ~cont(2) THEN bad(2)
         ELSE IF ~cont(3) THEN bad(3)
         ELSE [n |-> 4,
               c |-> (b0 - 240) * 262144 + (at(1) - 128) * 4096
                     + (at(2) - 128) * 64 + (at(3) - 128)]
    ELSE bad(1)

\* String::from_utf8_lossy(..).to_string(): the characters of the string
RECURSIVE utf8_lossy_from(_, _)
utf8_lossy_from(b, i) ==
    IF i > Len(b) THEN <<>>
    ELSE LET st == utf8_step(b, i) IN <<st.c>> \o utf8_lossy_from(b, i + st.n)

from_utf8_lossy(b) == utf8_lossy_from(b, 1)

\* SnftTableEntry
SnftTableEntry(tag, checksum, offset, length) ==
    [tag |-> tag, checksum |-> checksum, offset |-> offset, length |-> length]

\* read_snft_header
read_snft_header(data) ==
    LET r1 == read_u32(data) IN
    IF r1.ret.kind # "Ok" THEN r1 ELSE
    LET r2 == read_u16(r1.self) IN
    IF r2.ret.kind # "Ok" THEN r2 ELSE
    LET r3 == read_u16(r2.self) IN
    IF r3.ret.kind # "Ok" THEN r3 ELSE
    LET r4 == read_u16(r3.self) IN
    IF r4.ret.kind # "Ok" THEN r4 ELSE
    LET r5 == read_u16(r4.self) IN
    IF r5.ret.kind # "Ok" THEN r5 ELSE
    Ret(r5.self, Ok([version |-> r1.ret.val,
                     num_tables |-> r2.ret.val,
                     search_range |-> r3.ret.val,
                     entry_selector |-> r4.ret.val,
                     range_shift |-> r5.ret.val]))

\* read_snft_table_entry reading the offset field before the checksum field.
read_snft_table_entry_offset_first(data) ==
    LET r1 == read_bytes(data, 4) IN
    IF r1.ret.kind # "Ok" THEN r1 ELSE
    LET tag == <<r1.ret.val[1], r1.ret.val[2], r1.ret.val[3], r1.ret.val[4]>>
        r2 == read_u32(r1.self) IN
    IF r2.ret.kind # "Ok" THEN r2 ELSE
    LET r3 == read_u32(r2.self) IN
    IF r3.ret.kind # "Ok" THEN r3 ELSE
    LET r4 == read_u32(r3.self) IN
    IF r4.ret.kind # "Ok" THEN r4 ELSE
    Ret(r4.self, Ok(SnftTableEntry(tag, r3.ret.val, r2.ret.val, r4.ret.val)))

\* read_snft_table_entry taking the 16 bytes of a record in one read.
read_snft_table_entry_whole_record(data) ==
    LET r == read_bytes(data, 16) IN
    IF r.ret.kind # "Ok" THEN r ELSE
    LET b == r.ret.val
        e == data.endianness IN
    Ret(r.self, Ok(SnftTableEntry(<<b[1], b[2], b[3], b[4]>>,
                                  u32_from(e, <<b[5], b[6], b[7], b[8]>>),
                                  u32_from(e, <<b[9], b[10], b[11], b[12]>>),
                                  u32_from(e, <<b[13], b[14], b[15], b[16]>>))))

\* read_snft_table_entry
read_snft_table_entry(data) ==
    LET r1 == read_bytes(data, 4) IN
    IF r1.ret.kind # "Ok" THEN r1 ELSE
    LET tag == <<r1.ret.val[1], r1.ret.val[2], r1.ret.val[3], r1.ret.val[4]>>
        r2 == read_u32(r1.self) IN
    IF r2.ret.kind # "Ok" THEN r2 ELSE
    LET r3 == read_u32(r2.self) IN
    IF r3.ret.kind # "Ok" THEN r3 ELSE
    LET r4 == read_u32(r3.self) IN
    IF r4.ret.kind # "Ok" THEN r4 ELSE
    Ret(r4.self, Ok(SnftTableEntry(tag, r2.ret.val, r3.ret.val, r4.ret.val)))

\* read_snft: the `for _ in 0..header.num_tables` loop with n turns left
RECURSIVE read_snft_tables(_, _, _)
read_snft_tables(data, n, tables) ==
    IF n = 0 THEN Ret(data, Ok(tables))
    ELSE LET r == read_snft_table_entry(data) IN
         IF r.ret.kind # "Ok" THEN r
         ELSE read_snft_tables(r.self, n - 1, Append(tables, r.ret.val))

\* A read_snft carried out by its caller one pub function at a time: where
\* it is ("header", "entries", "done"), the position it started from, and
\* its result once it has one. The header and the records read so far are
\* the caller's directory.
ParserNew == [pc |-> "header", start |-> 0, ret |-> Ok(Unit)]

\* read_snft: `let header = read_snft_header(data)?;` returned r
read_snft_after_header(self, start, r) ==
    IF r.ret.kind # "Ok" THEN [pc |-> "done", start |-> start, ret |-> r.ret]
    ELSE IF r.ret.val.num_tables = 0
    THEN [pc |-> "done", start |-> start,
          ret |-> Ok([header |-> r.ret.val, tables |-> <<>>])]
    ELSE [pc |-> "entries", start |-> start, ret |-> Ok(Unit)]

\* read_snft: `tables.push(read_snft_table_entry(data)?);` returned r, the
\* header and the tables pushed before being those of snft_
read_snft_after_entry(self, snft_, r) ==
    IF r.ret.kind # "Ok" THEN [self EXCEPT !.pc = "done", !.ret = r.ret]
    ELSE IF Len(snft_.tables) + 1 = snft_.header.num_tables
    THEN [self EXCEPT !.pc = "done",
                      !.ret = Ok([snft_ EXCEPT !.tables = Append(@, r.ret.val)])]
    ELSE self

\* read_snft putting the cursor back where it started when a read fails.
read_snft_restoring(data) ==
    LET h == read_snft_header(data) IN
    IF h.ret.kind # "Ok" THEN Ret(data, h.ret) ELSE
    LET t == read_snft_tables(h.self, h.ret.val.num_tables, <<>>) IN
    IF t.ret.kind # "Ok" THEN Ret(data, t.ret) ELSE
    Ret(t.self, Ok([header |-> h.ret.val, tables |-> t.ret.val]))

\* read_snft
read_snft(data) ==
    LET h == read_snft_header(data) IN
    IF h.ret.kind # "Ok" THEN h ELSE
    LET t == read_snft_tables(h.self, h.ret.val.num_tables, <<>>) IN
    IF t.ret.kind # "Ok" THEN t ELSE
    Ret(t.self, Ok([header |-> h.ret.val, tables |-> t.ret.val]))

\* SnftTable::list_table_tags
list_table_tags(self) ==
    [i \in 1..Len(self.tables) |-> from_utf8_lossy(self.tables[i].tag)]

\* SnftTable::table_count
table_count(self) == Len(self.tables)

\* ------------------------------------------------------------ checksums
ChecksumMismatch(table, offset, expected, found) ==
    [type |-> "ChecksumMismatch", table |-> table, offset |-> offset,
     expected |-> expected, found |-> found]

\* The default path of compute_table_checksum from byte index i (0-based):
\* data.chunks(4), each chunk copied to the front of a zeroed 4-byte buffer.
RECURSIVE checksum_chunks(_, _, _)
checksum_chunks(data, i, sum) ==
    IF i >= Len(data) THEN sum
    ELSE LET chunk == Slice(data, i, IF i + 4 <= Len(data) THEN i + 4 ELSE Len(data))
             buf == [k \in 1..4 |-> IF k <= Len(chunk) THEN chunk[k] ELSE 0] IN
         checksum_chunks(data, i + 4, wrapping_add(sum, u32_from_be_bytes(buf)))

\* The `head` path of compute_table_checksum from byte index i (0-based)
RECURSIVE checksum_head(_, _, _)
checksum_head(data, i, sum) ==
    IF i >= Len(data) THEN sum
    ELSE LET buf == [j \in 1..4 |->
                        LET idx == i + (j - 1) IN
                        IF idx < Len(data)
                        THEN IF idx >= 8 /\ idx < 12 THEN 0 ELSE data[idx + 1]
                        ELSE 0] IN
         checksum_head(data, i + 4, wrapping_add(sum, u32_from_be_bytes(buf)))

\* compute_table_checksum with the bytes of a short last chunk moved to the
\* end of the word.
compute_table_checksum_low_order(table, data) ==
    LET n == Len(data)
        whole == 4 * (n \div 4)
        missing == IF n % 4 = 0 THEN 0 ELSE 4 - (n % 4)
        z == [i \in 1..n |->
                 IF table.tag = <<104, 101, 97, 100>> /\ i >= 9 /\ i <= 12
                 THEN 0 ELSE data[i]]
        moved == [i \in 1..(n + missing) |->
                     IF i <= whole THEN z[i]
                     ELSE IF i <= whole + missing THEN 0
                     ELSE z[i - missing]] IN
    checksum_chunks(moved, 0, <<0, 0>>)

\* compute_table_checksum with every table summed as it is.
compute_table_checksum_no_adjustment(table, data) ==
    checksum_chunks(data, 0, <<0, 0>>)

\* compute_table_checksum
compute_table_checksum(table, data) ==
    IF table.tag = <<104, 101, 97, 100>>
    THEN checksum_head(data, 0, <<0, 0>>)
    ELSE checksum_chunks(data, 0, <<0, 0>>)

\* SnftTableEntry::compute_checksum
compute_checksum(self, data) == checksum_chunks(data, 0, <<0, 0>>)

\* validate_snft_tables, first loop: the slice of every table, or the first
\* failure.  `t.offset + t.length` is an addition of two u32.
RECURSIVE table_slices_from(_, _, _, _, _)
table_slices_from(tables, stream_, oc, i, table_slices) ==
    IF i > Len(tables) THEN Ok(table_slices)
    ELSE LET t == tables[i]
             end == add_u32(t.offset, t.length, oc) IN
         IF end.panic THEN Panic
         ELSE LET r == slice_range(stream_, as_usize(t.offset), as_usize(end.v)) IN
              IF r.ret.kind # "Ok" THEN r.ret
              ELSE table_slices_from(tables, stream_, oc, i + 1,
                       Append(table_slices, [table |-> t, data |-> r.ret.val]))

\* The closure reporting the computed checksum as the expected one.
check_table_swapped(slice) ==
    LET computed == compute_table_checksum(slice.table, slice.data) IN
    [computed |-> computed,
     out |-> IF computed # slice.table.checksum
             THEN [some |-> TRUE,
                   v |-> Err(ChecksumMismatch(slice.table.tag,
                                              as_usize(slice.table.offset),
                                              computed, slice.table.checksum))]
             ELSE [some |-> FALSE]]

\* The closure comparing the low 16 bits of the checksums only.
check_table_low_half(slice) ==
    LET computed == compute_table_checksum(slice.table, slice.data) IN
    [computed |-> computed,
     out |-> IF computed[2] # slice.table.checksum[2]
             THEN [some |-> TRUE,
                   v |-> Err(ChecksumMismatch(slice.table.tag,
                                              as_usize(slice.table.offset),
                                              slice.table.checksum, computed))]
             ELSE [some |-> FALSE]]

\* The closure given to filter_map: the computed checksum and what the
\* closure returns for one (table, data) pair.
check_table(slice) ==
    LET computed == compute_table_checksum(slice.table, slice.data) IN
    [computed |-> computed,
     out |-> IF computed # slice.table.checksum
             THEN [some |-> TRUE,
                   v |-> Err(ChecksumMismatch(slice.table.tag,
                                              as_usize(slice.table.offset),
                                              slice.table.checksum, computed))]
             ELSE [some |-> FALSE]]

\* validate_snft_tables, sequential fallback: the loop from pair i on
RECURSIVE validate_sequential_from(_, _)
validate_sequential_from(table_slices, i) ==
    IF i > Len(table_slices) THEN Ok(Unit)
    ELSE LET c == check_table(table_slices[i]) IN
         IF c.out.some THEN c.out.v
         ELSE validate_sequential_from(table_slices, i + 1)

\* A validation that slices and checks one record after the other, from
\* record i on.
RECURSIVE validate_each_from(_, _, _, _)
validate_each_from(tables, stream_, oc, i) ==
    IF i > Len(tables) THEN Ok(Unit)
    ELSE LET s == table_slices_from(<<tables[i]>>, stream_, oc, 1, <<>>) IN
         IF s.kind # "Ok" THEN s
         ELSE LET c == check_table(s.val[1]) IN
              IF c.out.some THEN c.out.v
              ELSE validate_each_from(tables, stream_, oc, i + 1)

\* validate_snft_tables taking the slice of a record when it checks it.
validate_snft_tables_record_by_record(tables, stream_, oc) ==
    Ret(stream_, validate_each_from(tables, stream_, oc, 1))

\* validate_snft_tables rewinding the cursor before it takes the slices.
validate_snft_tables_rewinding(tables, stream_, oc) ==
    LET rewound == [stream_ EXCEPT !.position = 0]
        s == table_slices_from(tables, rewound, oc, 1, <<>>) IN
    IF s.kind # "Ok" THEN Ret(rewound, s)
    ELSE Ret(rewound, validate_sequential_from(s.val, 1))

\* validate_snft_tables without the `parallel` feature
validate_snft_tables(tables, stream_, oc) ==
    LET s == table_slices_from(tables, stream_, oc, 1, <<>>) IN
    IF s.kind # "Ok" THEN Ret(stream_, s)
    ELSE Ret(stream_, validate_sequential_from(s.val, 1))

\* The parallel run: the pairs handed to the tasks and, in the order the
\* tasks completed, the index and result of each.
ParIdle == [running |-> FALSE]
ParRunning(tables, table_slices, finished) ==
    [running |-> TRUE, tables |-> tables, table_slices |-> table_slices,
     finished |-> finished]

\* The result of task i among the finished ones.
result_of(finished, i) ==
    LET k == CHOOSE k \in 1..Len(finished) : finished[k].i = i IN finished[k]

\* collect() taking the results in the order the tasks completed.
RECURSIVE collect_as_completed(_, _)
collect_as_completed(finished, i) ==
    IF i > Len(finished) THEN <<>>
    ELSE (IF finished[i].out.some THEN <<finished[i].out.v>> ELSE <<>>)
         \o collect_as_completed(finished, i + 1)

\* par_iter().filter_map(..).collect() into a Vec: the results the closure
\* kept, in the order of the pairs, from pair i on.
RECURSIVE collect(_, _)
collect(finished, i) ==
    IF i > Len(finished) THEN <<>>
    ELSE (IF result_of(finished, i).out.some
          THEN <<result_of(finished, i).out.v>> ELSE <<>>)
         \o collect(finished, i + 1)

\* The first mismatch to be computed is returned.
validate_parallel_finish_as_completed(finished) ==
    LET mismatches == collect_as_completed(finished, 1) IN
    IF Len(mismatches) > 0 THEN mismatches[1] ELSE Ok(Unit)

\* validate_snft_tables with the `parallel` feature, after the tasks: the
\* first collected mismatch is returned.
validate_parallel_finish(finished) ==
    LET mismatches == collect(finished, 1) IN
    IF Len(mismatches) > 0 THEN mismatches[1] ELSE Ok(Unit)

\* ------------------------------------------------------ decode pipeline
\* decode_font_otf, decode_font_ttf
decode_font_otf(stream_) == read_snft(stream_)
decode_font_ttf(stream_) == read_snft(stream_)

\* decode_font_woff, decode_font_woff2, decode_font_svg
decode_font_woff(stream_) == Ret(stream_, Err(InvalidFormat))
decode_font_woff2(stream_) == Ret(stream_, Err(InvalidFormat))
decode_font_svg(stream_) == Ret(stream_, Err(InvalidFormat))

\* decode_font_file: `match decode_font_type(stream)? { ... }`, the
\* classifier having returned t
decode_font_file_match(t) ==
    IF t.ret.kind # "Ok" THEN t
    ELSE CASE t.ret.val \in {"SFNT", "TRUE"} -> decode_font_ttf(t.self)
           [] t.ret.val \in {"TYP1", "OTTO"} -> decode_font_otf(t.self)
           [] t.ret.val = "WOFF" -> decode_font_woff(t.self)
           [] t.ret.val = "WOF2" -> decode_font_woff2(t.self)
           [] t.ret.val = "SVG" -> decode_font_svg(t.self)
           [] OTHER -> Ret(t.self, Err(InvalidFormat))

\* decode_font_file
decode_font_file(stream_) == decode_font_file_match(decode_font_type(stream_))

\* The directory parser decode_into hands the stream to.
extract_snft_tables_from_stream(stream_) == read_snft(stream_)

\* A sink as decode_into receives it: how its two operations will answer,
\* the calls it has received, and the tables it holds (as Font does).
NewSink(answers) == [answers |-> answers, calls |-> <<>>, snft_tables |-> <<>>]

\* The S::Err that operation from of the sink returned, converted into Error
SinkError(from) == [type |-> "Sink", from |-> from]

\* FontSink::consume_snft
consume_snft(self, snft_) ==
    IF self.answers.consume_snft
    THEN [sink |-> [self EXCEPT !.calls = Append(@, "consume_snft"),
                                !.snft_tables = @ \o snft_.tables],
          ret |-> Ok(Unit)]
    ELSE [sink |-> [self EXCEPT !.calls = Append(@, "consume_snft")],
          ret |-> Err(SinkError("consume_snft"))]

\* FontSink::finish
finish(self) ==
    [sink |-> [self EXCEPT !.calls = Append(@, "finish")],
     ret |-> IF self.answers.finish
             THEN Ok([snft_tables |-> self.snft_tables])
             ELSE Err(SinkError("finish"))]

\* What decode_into leaves behind: the stream, its result, the sink.
Out(stream_, ret, sink_) == [self |-> stream_, ret |-> ret, sink |-> sink_]

\* decode_into: `sink.finish().map_err(|e| e.into())` returned f
decode_into_finished(stream_, f) == Out(stream_, f.ret, f.sink)

\* decode_into finishing the sink whatever consume_snft answered.
decode_into_consumed_finish_always(stream_, c) ==
    decode_into_finished(stream_, finish(c.sink))

\* decode_into: `sink.consume_snft(snft).map_err(|e| e.into())?;` returned c
decode_into_consumed(stream_, c) ==
    IF c.ret.kind # "Ok" THEN Out(stream_, c.ret, c.sink)
    ELSE decode_into_finished(stream_, finish(c.sink))

\* decode_into: `let snft = extract_snft_tables_from_stream(stream)?;`
\* returned e
decode_into_extracted(e, sink_) ==
    IF e.ret.kind # "Ok" THEN Out(e.self, e.ret, sink_)
    ELSE decode_into_consumed(e.self, consume_snft(sink_, e.ret.val))

\* decode_into: the two arms that parse a directory
decode_into_snft(stream_, sink_) ==
    decode_into_extracted(extract_snft_tables_from_stream(stream_), sink_)

\* decode_into: the SVG arm, `stream.slice_range(0..stream.len())?` having
\* returned bytes
decode_into_svg(bytes, sink_) ==
    IF bytes.ret.kind # "Ok" THEN Out(bytes.self, bytes.ret, sink_)
    ELSE decode_into_finished(bytes.self, finish(sink_))

\* The match of decode_into sending the WOFF signatures to the directory
\* parser.
decode_into_match_woff_parsed(t, sink_) ==
    IF t.ret.kind # "Ok" THEN Out(t.self, t.ret, sink_)
    ELSE CASE t.ret.val = "SVG" ->
                 decode_into_svg(slice_range(t.self, 0, Len(t.self.data)), sink_)
           [] OTHER -> decode_into_snft(t.self, sink_)

\* decode_into: `match decode_font_type(stream)? { ... }`, the classifier
\* having returned t
decode_into_match(t, sink_) ==
    IF t.ret.kind # "Ok" THEN Out(t.self, t.ret, sink_)
    ELSE CASE t.ret.val \in {"SFNT", "TRUE", "TYP1", "OTTO"} ->
                 decode_into_snft(t.self, sink_)
           [] t.ret.val \in {"WOFF", "WOF2"} ->
                 Out(t.self, Err(InvalidFormat), sink_)
           [] t.ret.val = "SVG" ->
                 decode_into_svg(slice_range(t.self, 0, Len(t.self.data)), sink_)
           [] OTHER -> decode_into_snft(t.self, sink_)

\* decode_into
decode_into(stream_, sink_) == decode_into_match(decode_font_type(stream_), sink_)

\* ---------------------------------------------------------------- inputs
Min(a, b) == IF a <= b THEN a ELSE b

\* Buffers for the cursor operations: every prefix, up to MaxLen bytes, of
\* two byte strings.
Samples == { <<0, 0, 1, 0, 128, 2, 7>>, <<255, 128, 1, 254, 3, 4, 5>> }

Buffers ==
    UNION {{SubSeq(s, 1, n) : n \in 0..Min(MaxLen, Len(s))} : s \in Samples}

\* Buffers for the classifier.  The first four bytes are one of the seven
\* signatures, the standard signature byte-swapped, or FF FF FF FF; up to
\* MaxTail bytes follow; every prefix is a buffer too.
Heads ==
    { <<0, 1, 0, 0>>, <<116, 114, 117, 101>>, <<116, 121, 112, 49>>,
      <<79, 84, 84, 79>>, <<119, 79, 70, 70>>, <<119, 79, 70, 50>>,
      <<115, 118, 103, 32>>, <<0, 0, 1, 0>>, <<255, 255, 255, 255>> }

TailBytes == {1, 128}

Tails == UNION {[1..n -> TailBytes] : n \in 0..MaxTail}

FontBuffers ==
    UNION {{SubSeq(h \o t, 1, n) : n \in 0..(4 + Len(t))} : h \in Heads, t \in Tails}

\* usize arguments: small ones, one past the longest buffer, and huge ones.
HugeArgs == {0 - (k + 1) : k \in 0..MaxHuge}
UsizeArgs == {0, 1, 2, 3, 4, MaxLen + 1} \cup HugeArgs
\* Arguments of the two-argument accessors.
RangeArgs == {0, 2, MaxLen, MaxLen + 1, 0 - 1}
\* Destination sizes for Read::read, offsets for Seek::seek.
BufLens == {0, 1, 2, MaxLen + 1}
U64Args == {0, 1, MaxLen + 1, 0 - 1}
I64Args == {0 - (MaxLen + 1), 0 - 1, 0, 1, MaxLen + 1}
ByteOrders == {"BigEndian", "LittleEndian"}

\* The table data every font image ends with.
TableData == <<0, 1, 0, 0, 255, 255, 255, 255, 9, 8, 7, 6, 128, 2, 3, 4>>

\* At most MaxRecs records in a directory.
MaxRecs == 2

\* A directory record to be written: the tag, where its table starts in
\* TableData, the length field and the checksum field.
Rec(tag, rel, length, checksum) ==
    [tag |-> tag, rel |-> rel, length |-> length, checksum |-> checksum]

RecGlyf == Rec(<<103, 108, 121, 102>>, 0, <<0, 8>>, <<0, 65535>>)
RecHead == Rec(<<104, 101, 97, 100>>, 0, <<0, 16>>, <<32771, 771>>)
RecHeadShort == Rec(<<104, 101, 97, 100>>, 4, <<0, 10>>, <<2312, 1797>>)
RecHeaD == Rec(<<104, 101, 97, 68>>, 0, <<0, 16>>, <<32771, 771>>)
RecCmap == Rec(<<99, 109, 97, 112>>, 8, <<0, 6>>, <<35082, 1798>>)
RecName == Rec(<<110, 97, 109, 101>>, 12, <<0, 4>>, <<0, 0>>)
RecCvt == Rec(<<99, 118, 116, 32>>, 16, <<0, 0>>, <<0, 0>>)
RecLoca == Rec(<<108, 111, 99, 97>>, 8, <<0, 64>>, <<0, 0>>)
RecKern == Rec(<<107, 101, 114, 110>>, 4, <<65535, 65535>>, <<0, 0>>)
RecBadTag == Rec(<<226, 130, 65, 255>>, 12, <<0, 4>>, <<32770, 772>>)

\* Records whose checksum field is right, is wrong (name, and heaD, which has
\* the checksum of a head table), whose range ends past the buffer (loca) or
\* past 2^32 (kern).
Records ==
    {RecGlyf, RecHead, RecHeadShort, RecHeaD, RecCmap, RecName, RecCvt,
     RecLoca, RecKern}

Directories(recs) == UNION {[1..n -> recs] : n \in 0..MaxRecs}

u16_bytes(n) == <<n \div 256, n % 256>>
u32_bytes(v) == u16_bytes(v[1]) \o u16_bytes(v[2])

\* The 16 bytes of record r in an image whose table data starts at base.
RecordBytes(r, base) ==
    r.tag \o u32_bytes(r.checksum) \o u32_bytes(<<0, base + r.rel>>)
          \o u32_bytes(r.length)

\* A font image: the 12-byte header with the given num_tables bytes, the
\* records of dir, the table data.
FontImage(dir, num_tables) ==
    LET base == 12 + 16 * Len(dir) IN
    <<0, 1, 0, 0>> \o num_tables \o <<0, 32, 0, 1, 1, 0>>
    \o [k \in 1..(16 * Len(dir)) |->
           RecordBytes(dir[((k - 1) \div 16) + 1], base)[((k - 1) % 16) + 1]]
    \o TableData

\* Images for the checksum validator: every directory of up to MaxRecs
\* records, declared as it is.
ValidateImages ==
    {FontImage(dir, u16_bytes(Len(dir))) : dir \in Directories(Records)}

\* Images for the directory parser: directories with a repeated tag, a
\* zero-length record and a tag that is not UTF-8, declaring the records
\* they have or two more, one whose num_tables is 1 read little-endian, and
\* every prefix of the image with MaxRecs records.
ParseRecords == {RecGlyf, RecCvt, RecBadTag}
LongestDir == [i \in 1..MaxRecs |-> IF i % 2 = 1 THEN RecGlyf ELSE RecBadTag]
SnftImages ==
    {FontImage(dir, u16_bytes(Len(dir) + extra)) :
        dir \in Directories(ParseRecords), extra \in {0, 2}}
    \cup {FontImage(<<RecGlyf>>, <<1, 0>>)}
    \cup {SubSeq(FontImage(LongestDir, u16_bytes(MaxRecs)), 1, n) :
             n \in 0..(12 + 16 * MaxRecs + Len(TableData))}

\* How the two operations of a sink answer (TRUE for Ok): Font always
\* answers Ok, a sink of the caller may fail in either.
FontAnswers == [consume_snft |-> TRUE, finish |-> TRUE]
SinkAnswers == [consume_snft : BOOLEAN, finish : BOOLEAN]

\* Images for the decode pipeline: every signature, followed by the rest of
\* a directory with no record, with one record, or declaring more records
\* than it has, and buffers too short to hold a signature.
DecodeImages ==
    {h \o SubSeq(img, 5, Len(img)) :
        h \in Heads,
        img \in {FontImage(<<>>, u16_bytes(0)), FontImage(<<RecGlyf>>, u16_bytes(1)),
                 FontImage(<<RecGlyf>>, u16_bytes(3))}}
    \cup {SubSeq(h, 1, n) : h \in Heads, n \in {0, 3}}

\* Positions a directory is read from.
StartArgs == {0, 4}

\* Images for a parse carried out step by step with validations in between:
\* directories whose records validate, mismatch, lie outside the buffer or
\* overflow, and one cut in its header and in its second record.
InterleaveDirs ==
    {<<>>, <<RecGlyf>>, <<RecGlyf, RecHead>>, <<RecName, RecGlyf>>,
     <<RecLoca>>, <<RecGlyf, RecKern>>}
InterleaveImages ==
    {FontImage(dir, u16_bytes(Len(dir))) : dir \in InterleaveDirs}
    \cup {SubSeq(FontImage(<<RecGlyf, RecHead>>, u16_bytes(2)), 1, n) :
             n \in {10, 12 + 16 + 6}}

\* ----------------------------------------------------------- transitions
\* The caller has created a stream over d and holds no directory.
Start(d) ==
    /\ stream = new(d)
    /\ call = [op |-> "new", args |-> <<>>, pre |-> new(d), ret |-> Ok(Unit)]
    /\ overflow_checks \in BOOLEAN
    /\ snft = [some |-> FALSE]
    /\ par = ParIdle
    /\ sink = NewSink(FontAnswers)
    /\ parser = ParserNew

Init == \E d \in Buffers : Start(d)

\* A call returns: r is what it leaves behind.
Return(op, args, r) ==
    /\ stream' = r.self
    /\ call' = [op |-> op, args |-> args, pre |-> stream, ret |-> r.ret]
    /\ UNCHANGED overflow_checks

\* The caller invokes a method, which it cannot do while a validation holds
\* the stream.
Invoke(op, args, r) ==
    /\ ~par.running
    /\ Return(op, args, r)
    /\ UNCHANGED <<snft, par, sink, parser>>

WithEndianness ==
    \E e \in ByteOrders :
        Invoke("with_endianness", <<e>>, Ret(with_endianness(stream, e), Ok(Unit)))

ReadU8 == Invoke("read_u8", <<>>, read_u8(stream))
ReadU16 == Invoke("read_u16", <<>>, read_u16(stream))
ReadU32 == Invoke("read_u32", <<>>, read_u32(stream))
ReadI8 == Invoke("read_i8", <<>>, read_i8(stream))
ReadI16 == Invoke("read_i16", <<>>, read_i16(stream))
ReadI32 == Invoke("read_i32", <<>>, read_i32(stream))
Skip == \E n \in UsizeArgs : Invoke("skip", <<n>>, skip(stream, n, overflow_checks))
Reset == Invoke("reset", <<>>, reset(stream))
Seek == \E pos \in UsizeArgs : Invoke("seek", <<pos>>, seek(stream, pos))
ReadBytes == \E n \in UsizeArgs : Invoke("read_bytes", <<n>>, read_bytes(stream, n))
PeekU8 == Invoke("peek_u8", <<>>, peek_u8(stream))
PeekBytes ==
    \E n \in UsizeArgs :
        Invoke("peek_bytes", <<n>>, peek_bytes(stream, n, overflow_checks))
ReadAtU8 == \E o \in UsizeArgs : Invoke("read_at_u8", <<o>>, read_at_u8(stream, o))
ReadAtU16 ==
    \E o \in UsizeArgs :
        Invoke("read_at_u16", <<o>>, read_at_u16(stream, o, overflow_checks))
ReadAtU32 ==
    \E o \in UsizeArgs :
        Invoke("read_at_u32", <<o>>, read_at_u32(stream, o, overflow_checks))
SliceAt ==
    \E o \in RangeArgs, n \in RangeArgs :
        Invoke("slice_at", <<o, n>>, slice_at(stream, o, n, overflow_checks))
SliceRange ==
    \E s \in RangeArgs, e \in RangeArgs :
        Invoke("slice_range", <<s, e>>, slice_range(stream, s, e))
ReadTag == Invoke("read_tag", <<>>, read_tag(stream))
IoRead == \E n \in BufLens : Invoke("io_read", <<n>>, io_read(stream, n))
IoSeek ==
    \/ \E o \in U64Args :
          Invoke("io_seek", <<"Start", o>>, io_seek(stream, [from |-> "Start", offset |-> o]))
    \/ \E f \in {"End", "Current"}, o \in I64Args :
          Invoke("io_seek", <<f, o>>, io_seek(stream, [from |-> f, offset |-> o]))
DecodeFontType == Invoke("decode_font_type", <<>>, decode_font_type(stream))

\* The ByteOrder helpers, applied to the bytes that follow the cursor.
U16From ==
    /\ Len(stream.data) - stream.position >= 2
    /\ \E e \in ByteOrders :
          LET b == Slice(stream.data, stream.position, stream.position + 2) IN
          Invoke("u16_from", <<e, b>>, Ret(stream, Ok(u16_from(e, b))))
U32From ==
    /\ Len(stream.data) - stream.position >= 4
    /\ \E e \in ByteOrders :
          LET b == Slice(stream.data, stream.position, stream.position + 4) IN
          Invoke("u32_from", <<e, b>>, Ret(stream, Ok(u32_from(e, b))))
ReadU16FromSlice ==
    \E e \in ByteOrders :
        LET s == Slice(stream.data, stream.position, Len(stream.data)) IN
        Invoke("read_u16_from_slice", <<e, s>>, Ret(stream, Ok(read_u16_from_slice(e, s))))
ReadU32FromSlice ==
    \E e \in ByteOrders :
        LET s == Slice(stream.data, stream.position, Len(stream.data)) IN
        Invoke("read_u32_from_slice", <<e, s>>, Ret(stream, Ok(read_u32_from_slice(e, s))))

Next ==
    \/ WithEndianness
    \/ ReadU8 \/ ReadU16 \/ ReadU32 \/ ReadI8 \/ ReadI16 \/ ReadI32
    \/ Skip \/ Reset \/ Seek \/ ReadBytes
    \/ PeekU8 \/ PeekBytes
    \/ ReadAtU8 \/ ReadAtU16 \/ ReadAtU32 \/ SliceAt \/ SliceRange
    \/ ReadTag \/ IoRead \/ IoSeek
    \/ U16From \/ U32From \/ ReadU16FromSlice \/ ReadU32FromSlice

\* The cursor and the byte-order helpers over the sample buffers.
Spec == Init /\ [][Next]_vars

\* The classifier over the signature buffers, with the cursor moved and its
\* byte order changed in between.
InitClassify == \E d \in FontBuffers : Start(d)

NextClassify == DecodeFontType \/ Seek \/ ReadU8 \/ WithEndianness

SpecClassify == InitClassify /\ [][NextClassify]_vars

\* read_snft: the caller keeps the directory when there is one.
ReadSnft ==
    LET r == read_snft(stream) IN
    /\ ~par.running
    /\ Return("read_snft", <<>>, r)
    /\ snft' = IF r.ret.kind = "Ok" THEN [some |-> TRUE, v |-> r.ret.val] ELSE snft
    /\ UNCHANGED <<par, sink, parser>>

ListTableTags ==
    /\ snft.some
    /\ Invoke("list_table_tags", <<snft.v>>, Ret(stream, Ok(list_table_tags(snft.v))))

TableCount ==
    /\ snft.some
    /\ Invoke("table_count", <<snft.v>>, Ret(stream, Ok(table_count(snft.v))))

\* The caller moves to where a directory is to be read from.
SeekStart == \E pos \in StartArgs : Invoke("seek", <<pos>>, seek(stream, pos))

\* The directory parser over the directory images, from the start
\* positions and in either byte order.
InitSnft == \E d \in SnftImages : Start(d)

NextSnft == ReadSnft \/ ListTableTags \/ TableCount \/ SeekStart \/ WithEndianness

SpecSnft == InitSnft /\ [][NextSnft]_vars

\* SnftTableEntry::compute_checksum of record i over the bytes of its range
ComputeChecksum ==
    /\ snft.some
    /\ \E i \in 1..Len(snft.v.tables) :
          LET t == snft.v.tables[i]
              s == table_slices_from(<<t>>, stream, FALSE, 1, <<>>) IN
          /\ s.kind = "Ok"
          /\ Invoke("compute_checksum", <<t, s.val[1].data>>,
                    Ret(stream, Ok(compute_checksum(t, s.val[1].data))))

\* validate_snft_tables built without the `parallel` feature, on the tables
\* of the directory as SnftTable::validate_checksums passes them.
ValidateSnftTables ==
    /\ snft.some
    /\ Invoke("validate_snft_tables", <<snft.v.tables, "sequential">>,
              validate_snft_tables(snft.v.tables, stream, overflow_checks))

\* validate_snft_tables built with the `parallel` feature: the slices are
\* taken, and the call returns at once when one cannot be; otherwise it is
\* now in its parallel iterator.
ValidateParallel ==
    /\ snft.some
    /\ ~par.running
    /\ LET s == table_slices_from(snft.v.tables, stream, overflow_checks, 1, <<>>) IN
       IF s.kind # "Ok"
       THEN /\ Return("validate_snft_tables", <<snft.v.tables, "parallel", <<>>>>,
                      Ret(stream, s))
            /\ UNCHANGED <<snft, par, sink, parser>>
       ELSE /\ par' = ParRunning(snft.v.tables, s.val, <<>>)
            /\ call' = [op |-> "par_iter", args |-> <<snft.v.tables, "parallel">>,
                        pre |-> stream, ret |-> Ok(Unit)]
            /\ UNCHANGED <<stream, overflow_checks, snft, sink, parser>>

\* One task of the pool runs the closure on a pair not yet done.
ParTask ==
    /\ par.running
    /\ \E i \in 1..Len(par.table_slices) :
          /\ \A k \in 1..Len(par.finished) : par.finished[k].i # i
          /\ LET c == check_table(par.table_slices[i]) IN
             par' = [par EXCEPT !.finished =
                        Append(@, [i |-> i, computed |-> c.computed, out |-> c.out])]
    /\ UNCHANGED <<stream, call, overflow_checks, snft, sink, parser>>

\* All tasks are done: the results are collected and the call returns (the
\* order in which the tasks completed is kept with the call).
ParCollect ==
    /\ par.running
    /\ Len(par.finished) = Len(par.table_slices)
    /\ Return("validate_snft_tables",
              <<par.tables, "parallel", [k \in 1..Len(par.finished) |-> par.finished[k].i]>>,
              Ret(stream, validate_parallel_finish(par.finished)))
    /\ par' = ParIdle
    /\ UNCHANGED <<snft, sink, parser>>

\* The checksum validator, in both builds, over the validator images.
InitValidate == \E d \in ValidateImages : Start(d)

NextValidate ==
    \/ ReadSnft \/ ComputeChecksum \/ ValidateSnftTables
    \/ ValidateParallel \/ ParTask \/ ParCollect

SpecValidate == InitValidate /\ [][NextValidate]_vars

\* read_snft_header called by a caller that parses step by step and keeps
\* the header as its directory so far.
ParseHeader ==
    LET r == read_snft_header(stream) IN
    /\ parser.pc = "header"
    /\ ~par.running
    /\ Return("read_snft_header", <<>>, r)
    /\ parser' = read_snft_after_header(parser, stream.position, r)
    /\ snft' = IF r.ret.kind = "Ok"
               THEN [some |-> TRUE, v |-> [header |-> r.ret.val, tables |-> <<>>]]
               ELSE snft
    /\ UNCHANGED <<par, sink>>

\* read_snft_table_entry called by that caller, which pushes the record.
ParseEntry ==
    LET r == read_snft_table_entry(stream) IN
    /\ parser.pc = "entries"
    /\ ~par.running
    /\ Return("read_snft_table_entry", <<>>, r)
    /\ parser' = read_snft_after_entry(parser, snft.v, r)
    /\ snft' = IF r.ret.kind = "Ok"
               THEN [snft EXCEPT !.v.tables = Append(@, r.ret.val)]
               ELSE snft
    /\ UNCHANGED <<par, sink>>

\* The caller moves to a start position before it begins to parse.
SeekBefore == parser.pc = "header" /\ SeekStart

\* The parse step by step, with validations of the records read so far (in
\* both builds) and absolute fetches in between.
InitInterleave == \E d \in InterleaveImages : Start(d)

NextInterleave ==
    \/ SeekBefore \/ ParseHeader \/ ParseEntry
    \/ ValidateSnftTables \/ ValidateParallel \/ ParTask \/ ParCollect
    \/ ReadAtU32 \/ SliceRange

SpecInterleave == InitInterleave /\ [][NextInterleave]_vars

\* decode_font_file
DecodeFontFile == Invoke("decode_font_file", <<>>, decode_font_file(stream))

\* decode_into with a new sink of the caller, which is left as the pipeline
\* leaves it.
DecodeInto ==
    \E answers \in SinkAnswers :
        LET r == decode_into(stream, NewSink(answers)) IN
        /\ ~par.running
        /\ Return("decode_into", <<answers>>, r)
        /\ sink' = r.sink
        /\ UNCHANGED <<snft, par, parser>>

\* The decode pipeline over the signature images, from the start positions.
InitDecode == \E d \in DecodeImages : Start(d)

NextDecode == DecodeFontFile \/ DecodeInto \/ SeekStart

SpecDecode == InitDecode /\ [][NextDecode]_vars

\* ----------------------------------------------------------------- types
TypeOK ==
    /\ stream.data \in Buffers \cup FontBuffers \cup SnftImages \cup ValidateImages
                       \cup DecodeImages \cup InterleaveImages
    /\ stream.position \in 0..Len(stream.data)
    /\ stream.endianness \in ByteOrders
    /\ overflow_checks \in BOOLEAN

\* ------------------------------------------------------------ properties
\* The last call was made on a stream at position PrePos, with PreAvail
\* bytes between that position and the end of the buffer.
PrePos == call.pre.position
PreAvail == Len(call.pre.data) - call.pre.position

SeqReads ==
    {"read_u8", "read_i8", "read_u16", "read_i16", "read_u32", "read_i32",
     "read_bytes"}

\* Number of bytes the last sequential read asked for.
Requested ==
    CASE call.op \in {"read_u8", "read_i8"} -> 1
      [] call.op \in {"read_u16", "read_i16"} -> 2
      [] call.op \in {"read_u32", "read_i32"} -> 4
      [] call.op = "read_bytes" -> call.args[1]

\* The bytes of buffer d at Rust indices [from, from + n).
BytesAt(d, from, n) == [i \in 1..n |-> d[from + i]]

Reverse(b) == [i \in 1..Len(b) |-> b[Len(b) + 1 - i]]

\* The bytes b put most significant first under byte order e.
MsbFirst(b, e) == IF e = "BigEndian" THEN b ELSE Reverse(b)

\* The unsigned number whose bytes, most significant first, are m: a plain
\* integer for one or two bytes, the pair of 16-bit halves for four, i.e.
\* m[1] * 2^24 + m[2] * 2^16 + m[3] * 2^8 + m[4].
Unsigned(m) ==
    CASE Len(m) = 1 -> m[1]
      [] Len(m) = 2 -> 256 * m[1] + m[2]
      [] Len(m) = 4 -> <<256 * m[1] + m[2], 256 * m[3] + m[4]>>

\* The two's-complement number with the same bytes.
Signed(m) ==
    LET neg == m[1] >= 128 IN
    CASE Len(m) = 1 -> m[1] - (IF neg THEN 256 ELSE 0)
      [] Len(m) = 2 -> 256 * m[1] + m[2] - (IF neg THEN 65536 ELSE 0)
      [] Len(m) = 4 -> 65536 * (256 * m[1] + m[2] - (IF neg THEN 65536 ELSE 0))
                       + 256 * m[3] + m[4]

\* C1: after any cursor operation, successful or failing, the position lies
\* in [0, buffer length].
C1_PositionInBounds ==
    /\ 0 <= stream.position
    /\ stream.position <= Len(stream.data)

\* A seek past the end of the buffer has been clamped to the end.
C1_Witness ==
    /\ call.op = "seek"
    /\ UsizeLt(Len(stream.data), call.args[1])
    /\ stream.position = Len(stream.data)

\* C2: a sequential read of n bytes with fewer than n bytes remaining
\* returns OutOfBounds{requested: n, available: L - p} and leaves the
\* position at p.
C2_ShortReadFails ==
    (call.op \in SeqReads /\ UsizeLt(PreAvail, Requested))
        => /\ call.ret = Err(OutOfBounds(Requested, PreAvail))
           /\ stream.position = PrePos

\* read_bytes(2) with one byte left, as in test_io_stream.
C2_Witness ==
    /\ call.op = "read_bytes"
    /\ call.args = <<2>>
    /\ PreAvail = 1
    /\ call.ret = Err(OutOfBounds(2, 1))
    /\ stream.position = PrePos

\* C3: a sequential read of n bytes with at least n bytes remaining succeeds,
\* returns the n bytes at [p, p + n) (read_bytes as a slice of length n, the
\* integer reads as the number those bytes spell) and leaves the position at
\* p + n.
C3_ReadSucceeds ==
    (call.op \in SeqReads /\ UsizeLe(Requested, PreAvail))
        => LET bytes == BytesAt(call.pre.data, PrePos, Requested)
               m == MsbFirst(bytes, call.pre.endianness) IN
           /\ call.ret.kind = "Ok"
           /\ stream.position = PrePos + Requested
           /\ call.op = "read_bytes"
                 => Len(call.ret.val) = Requested /\ call.ret.val = bytes
           /\ call.op \in {"read_u8", "read_u16", "read_u32"}
                 => call.ret.val = Unsigned(m)
           /\ call.op \in {"read_i8", "read_i16", "read_i32"}
                 => call.ret.val = Signed(m)

\* read_bytes(3) from position 1 of a buffer of at least 5 bytes, as in
\* test_io_stream.
C3_Witness ==
    /\ call.op = "read_bytes"
    /\ call.args = <<3>>
    /\ PrePos = 1
    /\ Len(stream.data) >= 5
    /\ call.ret.kind = "Ok"
    /\ stream.position = 4

\* The bytes a multi-byte conversion was given, and the byte order it used:
\* the sequential reads take them at the position, the absolute reads at
\* their offset, the ByteOrder helpers from their argument.
C4_Ops ==
    {"read_u16", "read_u32", "read_at_u16", "read_at_u32", "u16_from",
     "u32_from", "read_u32_from_slice"}
C4_Width == IF call.op \in {"read_u16", "read_at_u16", "u16_from"} THEN 2 ELSE 4
C4_Order ==
    IF call.op \in {"u16_from", "u32_from", "read_u32_from_slice"}
    THEN call.args[1] ELSE call.pre.endianness
C4_Bytes ==
    CASE call.op \in {"read_u16", "read_u32"} ->
             BytesAt(call.pre.data, PrePos, C4_Width)
      [] call.op \in {"read_at_u16", "read_at_u32"} ->
             BytesAt(call.pre.data, call.args[1], C4_Width)
      [] call.op \in {"u16_from", "u32_from"} -> call.args[2]
      [] call.op = "read_u32_from_slice" -> SubSeq(call.args[2], 1, 4)
C4_Converted ==
    /\ call.op \in C4_Ops
    /\ call.ret.kind = "Ok"
    /\ call.op = "read_u32_from_slice" => call.ret.val.some
C4_Value == IF call.op = "read_u32_from_slice" THEN call.ret.val.v ELSE call.ret.val

\* C4: multi-byte values are assembled in the selected byte order: big-endian
\* (the default) takes the first byte as the most significant, little-endian
\* as the least significant; [00,00,01,00] is 256 big-endian and 65536
\* little-endian.
C4_ByteOrder ==
    /\ call.op = "new" => stream.endianness = "BigEndian"
    /\ C4_Converted =>
          LET b == C4_Bytes IN
          /\ C4_Order = "BigEndian" /\ C4_Width = 2
                => C4_Value = 256 * b[1] + b[2]
          /\ C4_Order = "LittleEndian" /\ C4_Width = 2
                => C4_Value = 256 * b[2] + b[1]
          /\ C4_Order = "BigEndian" /\ C4_Width = 4
                => C4_Value = <<256 * b[1] + b[2], 256 * b[3] + b[4]>>
          /\ C4_Order = "LittleEndian" /\ C4_Width = 4
                => C4_Value = <<256 * b[4] + b[3], 256 * b[2] + b[1]>>
          /\ C4_Width = 4 /\ b = <<0, 0, 1, 0>>
                => C4_Value = IF C4_Order = "BigEndian" THEN <<0, 256>> ELSE <<1, 0>>

\* ByteOrder::LittleEndian.u32_from([0, 0, 1, 0]) gave 65536.
C4_Witness ==
    /\ call.op = "u32_from"
    /\ call.args = <<"LittleEndian", <<0, 0, 1, 0>>>>
    /\ call.ret = Ok(<<1, 0>>)

\* The true minimum of a + b and len, for a position a and a usize b.
C5_Saturated(a, b, len) == IF b < 0 \/ a + b > len THEN len ELSE a + b

\* C5: seek(pos) and skip(n) never fail; seek leaves the position at
\* min(pos, L), skip at min(p + n, L), for every p, L and argument.
C5_SeekSkipSaturate ==
    /\ call.op = "seek"
          => /\ call.ret.kind = "Ok"
             /\ stream.position = C5_Saturated(0, call.args[1], Len(stream.data))
    /\ call.op = "skip"
          => /\ call.ret.kind = "Ok"
             /\ stream.position = C5_Saturated(PrePos, call.args[1], Len(stream.data))

C6_Ops ==
    {"peek_u8", "peek_bytes", "read_at_u8", "read_at_u16", "read_at_u32",
     "slice_at", "slice_range"}

\* The last call, an absolute accessor, made again on stream s.
C6_Again(s) ==
    CASE call.op = "read_at_u8" -> read_at_u8(s, call.args[1])
      [] call.op = "read_at_u16" -> read_at_u16(s, call.args[1], overflow_checks)
      [] call.op = "read_at_u32" -> read_at_u32(s, call.args[1], overflow_checks)
      [] call.op = "slice_at" -> slice_at(s, call.args[1], call.args[2], overflow_checks)
      [] call.op = "slice_range" -> slice_range(s, call.args[1], call.args[2])

\* C6: the peeks and the absolute accessors leave the position unchanged;
\* the absolute accessors return the same from every position; peek_bytes(n)
\* returns what read_bytes(n) returns from the same state.
C6_PeekAndAbsolute ==
    /\ call.op \in C6_Ops => stream.position = PrePos
    /\ call.op \in C6_Ops \ {"peek_u8", "peek_bytes"}
          => \A q \in 0..Len(call.pre.data) :
                 C6_Again([call.pre EXCEPT !.position = q]).ret = call.ret
    /\ call.op = "peek_bytes"
          => call.ret = read_bytes(call.pre, call.args[1]).ret

\* C7 as stated: slice_range with start == end returns an empty slice, for
\* every start, also beyond the buffer.
C7_EmptyRangeAnywhere ==
    (call.op = "slice_range" /\ call.args[1] = call.args[2])
        => call.ret = Ok(<<>>)

\* C7 as amended: slice_range with start == end returns an empty slice when
\* start <= buffer length, and OutOfBounds{requested: 0, available: 0} when
\* start > buffer length.
C7_EmptyRangeInside ==
    (call.op = "slice_range" /\ call.args[1] = call.args[2])
        => call.ret = IF UsizeLe(call.args[1], Len(stream.data))
                      THEN Ok(<<>>) ELSE Err(OutOfBounds(0, 0))

\* slice_range(L..L) at the very end of a non-empty buffer is an empty slice.
C7_Witness ==
    /\ call.op = "slice_range"
    /\ call.args[1] = call.args[2]
    /\ call.args[1] = Len(stream.data)
    /\ Len(stream.data) > 0
    /\ call.ret = Ok(<<>>)

\* C8: slice_range with start > end returns InvalidOffset carrying start,
\* never OutOfBounds, also when start or end is beyond the buffer.
C8_InvertedRange ==
    (call.op = "slice_range" /\ UsizeLt(call.args[2], call.args[1]))
        => call.ret = Err(InvalidOffset(call.args[1]))

\* An inverted range whose two ends are both beyond the buffer.
C8_Witness ==
    /\ call.op = "slice_range"
    /\ UsizeLt(call.args[2], call.args[1])
    /\ UsizeLt(Len(stream.data), call.args[2])
    /\ call.ret = Err(InvalidOffset(call.args[1]))

\* The signature the first four bytes of a buffer spell.
C9_Signature(b) ==
    CASE b = <<0, 1, 0, 0>> -> "SFNT"
      [] b = <<116, 114, 117, 101>> -> "TRUE"
      [] b = <<116, 121, 112, 49>> -> "TYP1"
      [] b = <<79, 84, 84, 79>> -> "OTTO"
      [] b = <<119, 79, 70, 70>> -> "WOFF"
      [] b = <<119, 79, 70, 50>> -> "WOF2"
      [] b = <<115, 118, 103, 32>> -> "SVG"
      [] OTHER -> "Unknown"

\* C9: on a buffer of at least 4 bytes decode_font_type returns the
\* signature of the big-endian value of bytes 0..4, whatever the cursor's
\* byte order and position, and leaves the position unchanged.
C9_Classify ==
    (call.op = "decode_font_type" /\ Len(call.pre.data) >= 4)
        => /\ call.ret = Ok(C9_Signature(SubSeq(call.pre.data, 1, 4)))
           /\ stream.position = PrePos

\* A little-endian cursor away from the start classifies 'OTTO', and the
\* byte-swapped standard signature stays unknown.
C9_Witness ==
    /\ call.op = "decode_font_type"
    /\ call.pre.endianness = "LittleEndian"
    /\ PrePos > 0
    /\ Len(call.pre.data) >= 4
    /\ \/ call.ret = Ok("OTTO")
       \/ SubSeq(call.pre.data, 1, 4) = <<0, 0, 1, 0>> /\ call.ret = Ok("Unknown")

\* C10 as stated: classification never fails, also on buffers of 0..3 bytes.
C10_NeverFails == call.op = "decode_font_type" => call.ret.kind = "Ok"

\* C10 as amended: classification never panics; on a buffer of at least 4
\* bytes it returns a signature and no error; on a buffer of L < 4 bytes it
\* returns OutOfBounds{requested: 4, available: L} and no signature.
C10_FailsOnlyWhenShort ==
    call.op = "decode_font_type"
        => IF Len(call.pre.data) >= 4
           THEN /\ call.ret.kind = "Ok"
                /\ call.ret.val \in {"SFNT", "TRUE", "TYP1", "OTTO", "WOFF",
                                     "WOF2", "SVG", "Unknown"}
           ELSE call.ret = Err(OutOfBounds(4, Len(call.pre.data)))

\* Classification of a 2-byte buffer.
C10_Witness ==
    /\ call.op = "decode_font_type"
    /\ Len(call.pre.data) = 2
    /\ call.ret = Err(OutOfBounds(4, 2))


\* The unsigned field of n bytes found after the first `at` bytes of d, in
\* byte order e.
Field(d, at, n, e) == Unsigned(MsbFirst(BytesAt(d, at, n), e))

\* The last call was a read_snft that returned a directory.
Parsed == call.op = "read_snft" /\ call.ret.kind = "Ok"

\* C11: a successful read_snft returns exactly header.num_tables records,
\* record i made of the tag, checksum, offset and length fields of the i-th
\* 16-byte record after the 12-byte header, duplicates and zero-length
\* records included, and the header's search_range, entry_selector and
\* range_shift are the fields as written; list_table_tags and table_count
\* give one tag string per record, in the order of the records.
C11_DirectoryAsWritten ==
    /\ Parsed =>
          LET d == call.pre.data
              e == call.pre.endianness
              h == call.ret.val.header
              t == call.ret.val.tables IN
          /\ h.num_tables = Field(d, PrePos + 4, 2, e)
          /\ Len(t) = h.num_tables
          /\ h.version = Field(d, PrePos, 4, e)
          /\ h.search_range = Field(d, PrePos + 6, 2, e)
          /\ h.entry_selector = Field(d, PrePos + 8, 2, e)
          /\ h.range_shift = Field(d, PrePos + 10, 2, e)
          /\ \A i \in 1..Len(t) :
                LET at == PrePos + 12 + 16 * (i - 1) IN
                /\ t[i].tag = BytesAt(d, at, 4)
                /\ t[i].checksum = Field(d, at + 4, 4, e)
                /\ t[i].offset = Field(d, at + 8, 4, e)
                /\ t[i].length = Field(d, at + 12, 4, e)
    /\ call.op = "list_table_tags" =>
          LET t == call.args[1].tables IN
          /\ Len(call.ret.val) = Len(t)
          /\ \A i \in 1..Len(t) :
                /\ call.ret.val[i] = from_utf8_lossy(t[i].tag)
                /\ (\A k \in 1..4 : t[i].tag[k] < 128) => call.ret.val[i] = t[i].tag
    /\ call.op = "table_count" => call.ret.val = Len(call.args[1].tables)

\* Two zero-length records with the same tag were read, and both tags are
\* listed.
C11_Witness ==
    /\ call.op = "list_table_tags"
    /\ snft.some
    /\ call.args[1] = snft.v
    /\ snft.v.header.num_tables = 2
    /\ call.ret.val = <<RecCvt.tag, RecCvt.tag>>
    /\ call.pre.endianness = "BigEndian"

\* A record with a tag that is not UTF-8 was listed in its place.
C11_WitnessLossy ==
    /\ call.op = "list_table_tags"
    /\ Len(call.ret.val) = 2
    /\ call.ret.val[1] = RecGlyf.tag
    /\ call.ret.val[2] = <<65533, 65, 65533>>

\* Where the first field that does not fit starts, counted from the start
\* position, when avail bytes are left there: the header fields start at
\* 0, 4, 6, 8 and 10, the fields of the records every 4 bytes from 12 on.
C12_FieldStart(avail) ==
    IF avail >= 12 THEN 12 + 4 * ((avail - 12) \div 4)
    ELSE IF avail >= 4 THEN 4 + 2 * ((avail - 4) \div 2)
    ELSE 0
C12_FieldWidth(avail) == IF avail >= 4 /\ avail < 12 THEN 2 ELSE 4

\* The buffer holds fewer bytes from the start position than the header and
\* the declared number of records need.
C12_TooShort ==
    \/ PreAvail < 12
    \/ 12 + 16 * Field(call.pre.data, PrePos + 4, 2, call.pre.endianness) > PreAvail

\* C12: when the buffer holds fewer bytes from the start position than
\* 12 + 16 * table_count, read_snft returns no directory but the OutOfBounds
\* error of the first field that does not fit: it is raised where the cursor
\* stands after the fields that fit, in the first record that is not whole,
\* with the width of that field as requested and the bytes left there as
\* available.
C12_TruncatedDirectory ==
    call.op = "read_snft" /\ C12_TooShort =>
        LET at == C12_FieldStart(PreAvail) IN
        /\ call.ret = Err(OutOfBounds(C12_FieldWidth(PreAvail), PreAvail - at))
        /\ stream.position = PrePos + at
        /\ PreAvail >= 12 => (at - 12) \div 16 = (PreAvail - 12) \div 16

\* The second record of a directory of two is cut 2 bytes into its offset
\* field.
C12_Witness ==
    /\ call.op = "read_snft"
    /\ PrePos = 0
    /\ Len(call.pre.data) = 12 + 16 + 8 + 2
    /\ call.pre.endianness = "BigEndian"
    /\ call.ret = Err(OutOfBounds(4, 2))
    /\ stream.position = 12 + 16 + 8

\* ------------------------------------------------- checksum properties
RECURSIVE SeqSum(_)
SeqSum(q) == IF Len(q) = 0 THEN 0 ELSE q[1] + SeqSum(Tail(q))

\* The sum modulo 2^32 of the numbers whose bytes, most significant first,
\* are the elements of words, as a pair of 16-bit halves.
WordSum(words) ==
    LET hi == SeqSum([k \in 1..Len(words) |-> 256 * words[k][1] + words[k][2]])
        lo == SeqSum([k \in 1..Len(words) |-> 256 * words[k][3] + words[k][4]]) IN
    <<(hi + (lo \div 65536)) % 65536, lo % 65536>>

\* The 4-byte words of data, the last one completed with zeros after its
\* bytes (they are its high-order bytes) or before them (they are its
\* low-order bytes).
WordsPaddedLow(data) ==
    [k \in 1..((Len(data) + 3) \div 4) |->
        [j \in 1..4 |-> IF 4 * (k - 1) + j <= Len(data)
                        THEN data[4 * (k - 1) + j] ELSE 0]]
WordsPaddedHigh(data) ==
    [k \in 1..((Len(data) + 3) \div 4) |->
        LET missing == IF 4 * k > Len(data) THEN 4 * k - Len(data) ELSE 0 IN
        [j \in 1..4 |-> IF j <= missing THEN 0
                        ELSE data[4 * (k - 1) + j - missing]]]

\* data with the bytes at indices 8 to 11 (0-based) replaced by zero.
Adjusted(data) == [i \in 1..Len(data) |-> IF i >= 9 /\ i <= 12 THEN 0 ELSE data[i]]

HeadTag == <<104, 101, 97, 100>>

\* The checksums the program has computed that the state shows: those of
\* the finished tasks of a validation, and that of a compute_checksum call.
Sums ==
    (IF par.running
     THEN {[by |-> "validator",
            tag |-> par.table_slices[par.finished[k].i].table.tag,
            data |-> par.table_slices[par.finished[k].i].data,
            sum |-> par.finished[k].computed] : k \in 1..Len(par.finished)}
     ELSE {})
    \cup (IF call.op = "compute_checksum"
          THEN {[by |-> "entry", tag |-> call.args[1].tag,
                 data |-> call.args[2], sum |-> call.ret.val]}
          ELSE {})

\* The bytes that count for a checksum: those of the table, and for the
\* validator those of a head table with indices 8 to 11 taken as zero.
Summed(s) ==
    IF s.by = "validator" /\ s.tag = HeadTag THEN Adjusted(s.data) ELSE s.data

\* C13 (as claimed): when the last chunk of a table has fewer than 4 bytes,
\* its bytes are the low-order bytes of the last word and the missing
\* high-order bytes are zero.
C13_PaddedHigh ==
    \A s \in Sums :
        Len(s.data) % 4 # 0 => s.sum = WordSum(WordsPaddedHigh(Summed(s)))

\* C13 (as the code has it): when the last chunk of a table has fewer than
\* 4 bytes, its bytes are the high-order bytes of the last word and the
\* missing low-order bytes are zero.
C13_PaddedLow ==
    \A s \in Sums :
        Len(s.data) % 4 # 0 => s.sum = WordSum(WordsPaddedLow(Summed(s)))

\* The 6 bytes 09 08 07 06 80 02 were summed to 09080706 + 80020000.
C13_Witness ==
    \E s \in Sums :
        /\ s.by = "validator"
        /\ s.data = <<9, 8, 7, 6, 128, 2>>
        /\ s.sum = <<35082, 1798>>

\* C14 (as claimed): the checksum computed for a table whose length is a
\* multiple of 4 is the sum modulo 2^32 of its 4-byte big-endian words.
C14_PlainWordSum ==
    \A s \in Sums :
        Len(s.data) % 4 = 0 => s.sum = WordSum(WordsPaddedLow(s.data))

\* C14 (as the code has it): the checksum computed for a table whose length
\* is a multiple of 4 is the sum modulo 2^32 of its 4-byte big-endian
\* words, those of a head table being taken by the validator with the bytes
\* at indices 8 to 11 as zero; a sum of 2^32 or more wraps, and is neither
\* an error nor u32::MAX.
C14_WordSum ==
    \A s \in Sums :
        Len(s.data) % 4 = 0 =>
            /\ s.sum = WordSum(WordsPaddedLow(Summed(s)))
            /\ s.sum \in (0..65535) \X (0..65535)

\* 00010000 + FFFFFFFF was summed to 0000FFFF.
C14_Witness ==
    \E s \in Sums :
        /\ s.data = <<0, 1, 0, 0, 255, 255, 255, 255>>
        /\ s.sum = <<0, 65535>>

\* The last call was a validation of the tables call.args[1] over the
\* buffer call.pre.data; every range was inside the buffer when it returned
\* Ok or a checksum mismatch.
Validated == call.op = "validate_snft_tables"
RangesInside ==
    \/ call.ret.kind = "Ok"
    \/ call.ret.kind = "Err" /\ call.ret.err.type = "ChecksumMismatch"

\* What a validation of the same tables returns over the buffer d.
ValidationOf(d) ==
    validate_snft_tables(call.args[1], [call.pre EXCEPT !.data = d],
                         overflow_checks).ret

\* The buffer indices (1-based) of the bytes of table t (range inside the
\* buffer) and of its bytes at table-relative indices 8 to 11.
RangeOf(t) == (as_usize(t.offset) + 1)..(as_usize(t.offset) + as_usize(t.length))
AdjustmentOf(t) == RangeOf(t) \cap ((as_usize(t.offset) + 9)..(as_usize(t.offset) + 12))

\* The bytes of table t that count for its checksum.
SummedBy(t) == IF t.tag = HeadTag THEN RangeOf(t) \ AdjustmentOf(t) ELSE RangeOf(t)

\* The buffers that differ from d at most in the bytes at the indices in at.
Rewritten(d, at) ==
    {[i \in 1..Len(d) |-> IF i \in at THEN new_[i] ELSE d[i]] : new_ \in [at -> {0, 255}]}

\* For a head record the validator sums the table with its bytes 8 to 11 as
\* zero, whatever its length; for any other tag it sums the table as it is.
C15_Sums ==
    \A s \in Sums :
        s.by = "validator" =>
            s.sum = WordSum(WordsPaddedLow(IF s.tag = HeadTag THEN Adjusted(s.data)
                                           ELSE s.data))

\* C15 (as claimed): the validator sums a head table with its bytes at
\* table-relative indices 8 to 11 as zero and every other table as it is;
\* hence a buffer that differs only in those 4 bytes of a head table
\* validates identically.
C15_HeadAdjustment ==
    /\ C15_Sums
    /\ Validated /\ RangesInside =>
          \A i \in 1..Len(call.args[1]) :
              call.args[1][i].tag = HeadTag =>
                  \A d \in Rewritten(call.pre.data, AdjustmentOf(call.args[1][i])) :
                      ValidationOf(d) = call.ret

\* C15 (as the code has it): the same, for a buffer that differs only in
\* those 4 bytes of a head table when no record of the directory sums any
\* of them (no other table lies over them).
C15_HeadAdjustmentAlone ==
    /\ C15_Sums
    /\ Validated /\ RangesInside =>
          \A i \in 1..Len(call.args[1]) :
              /\ call.args[1][i].tag = HeadTag
              /\ \A j \in 1..Len(call.args[1]) :
                    SummedBy(call.args[1][j]) \cap AdjustmentOf(call.args[1][i]) = {}
              => \A d \in Rewritten(call.pre.data, AdjustmentOf(call.args[1][i])) :
                     ValidationOf(d) = call.ret

\* A directory with a 16-byte head table whose bytes 8 to 11 are not zero,
\* and another table that does not lie over them, was found valid.
C15_Witness ==
    /\ Validated
    /\ call.ret = Ok(Unit)
    /\ Len(call.args[1]) = 2
    /\ call.args[1][1].tag = HeadTag /\ call.args[1][1].length = <<0, 16>>
    /\ call.args[1][2].tag = RecGlyf.tag
    /\ BytesAt(call.pre.data, as_usize(call.args[1][1].offset) + 8, 4) = <<9, 8, 7, 6>>

\* The range of record t lies inside buffer d (which is shorter than 2^16
\* bytes): offset + length, as a sum of integers, is at most its length.
Inside(t, d) ==
    /\ t.offset[1] = 0
    /\ t.length[1] = 0
    /\ t.offset[2] + t.length[2] <= Len(d)

\* The checksum of the table of record t (range inside d) as the validator
\* is to compute it.
Recomputed(t, d) ==
    LET data == BytesAt(d, t.offset[2], t.length[2]) IN
    WordSum(WordsPaddedLow(IF t.tag = HeadTag THEN Adjusted(data) ELSE data))

\* The records of the validated directory whose checksum does not match.
Mismatching ==
    {i \in 1..Len(call.args[1]) :
        Recomputed(call.args[1][i], call.pre.data) # call.args[1][i].checksum}

\* The smallest element of a non-empty set of numbers.
First(S) == CHOOSE i \in S : \A j \in S : i <= j

\* The mismatch error of record t of buffer d.
MismatchOf(t, d) ==
    Err(ChecksumMismatch(t.tag, t.offset[2], t.checksum, Recomputed(t, d)))

\* C16: when the range of every record lies inside the buffer, validation
\* returns Ok iff every recomputed checksum equals the stored one, and
\* otherwise the ChecksumMismatch of the first mismatching record in
\* directory order, with its tag, its offset, the stored checksum as
\* expected and the recomputed one as found.
C16_FirstMismatch ==
    /\ Validated
    /\ \A i \in 1..Len(call.args[1]) : Inside(call.args[1][i], call.pre.data)
    => /\ call.ret = Ok(Unit) <=> Mismatching = {}
       /\ Mismatching # {} =>
             call.ret = MismatchOf(call.args[1][First(Mismatching)], call.pre.data)

\* The first record of two matches, the second does not and is the one
\* reported.
C16_Witness ==
    /\ Validated
    /\ call.args[2] = "sequential"
    /\ Len(call.args[1]) = 2
    /\ call.args[1][1].tag = RecGlyf.tag
    /\ call.args[1][2].tag = RecName.tag
    /\ call.ret = Err(ChecksumMismatch(RecName.tag, 12 + 32 + 12, <<0, 0>>, <<32770, 772>>))

\* The validated directory has a record whose range exceeds the buffer.
SomeOutside ==
    \E i \in 1..Len(call.args[1]) : ~Inside(call.args[1][i], call.pre.data)

\* offset + length of record t is 2^32 or more.
Beyond32(t) == t.offset[1] + t.length[1] + ((t.offset[2] + t.length[2]) \div 65536) >= 65536

\* C17: when the range [offset, offset + length) of a record exceeds the
\* buffer, offset + length being the sum of the two fields as integers
\* (also when it is 2^32 or more), validation returns an OutOfBounds error
\* and nothing else.
C17_RangeOutside ==
    Validated /\ SomeOutside =>
        call.ret.kind = "Err" /\ call.ret.err.type = "OutOfBounds"

\* The same for the directories in which no offset + length reaches 2^32,
\* where it holds.
C17_RangeOutsideBelow32 ==
    /\ Validated
    /\ SomeOutside
    /\ \A i \in 1..Len(call.args[1]) : ~Beyond32(call.args[1][i])
    => call.ret.kind = "Err" /\ call.ret.err.type = "OutOfBounds"

\* A record of offset 32 and length 2^32 - 1 was validated.
C17_Witness ==
    /\ Validated
    /\ Len(call.args[1]) = 1
    /\ call.args[1][1].length = <<65535, 65535>>
    /\ call.ret \in {Panic, Err(InvalidOffset(32))}

\* The records of the validated directory whose range exceeds the buffer,
\* and those with any problem: such a range, or a checksum that does not
\* match.
Outside == {i \in 1..Len(call.args[1]) : ~Inside(call.args[1][i], call.pre.data)}
Problems ==
    {i \in 1..Len(call.args[1]) :
        \/ ~Inside(call.args[1][i], call.pre.data)
        \/ Recomputed(call.args[1][i], call.pre.data) # call.args[1][i].checksum}

\* What the validator makes of record t whose range exceeds buffer d: an
\* OutOfBounds error, unless offset + length is 2^32 or more, when the
\* addition panics in a build with overflow checks and wraps below the
\* offset in a build without.
RangeErrorOf(t, d) ==
    IF Beyond32(t)
    THEN IF overflow_checks THEN Panic ELSE Err(InvalidOffset(as_usize(t.offset)))
    ELSE Err(OutOfBounds(as_usize(t.length),
                         IF as_usize(t.offset) < Len(d)
                         THEN Len(d) - as_usize(t.offset) ELSE 0))

ErrorOf(t, d) == IF Inside(t, d) THEN MismatchOf(t, d) ELSE RangeErrorOf(t, d)

\* C18 (as claimed): validation returns the error of the first record in
\* directory order that has a problem of either kind, a range that exceeds
\* the buffer or a checksum that does not match, also when a later record
\* has a problem of the other kind.
C18_FailFast ==
    Validated /\ Problems # {} =>
        call.ret = ErrorOf(call.args[1][First(Problems)], call.pre.data)

\* C18 (as the code has it): when the range of some record exceeds the
\* buffer, validation returns the error of the first such record in
\* directory order, also when an earlier record has a checksum that does not
\* match; when no range does, it returns the mismatch of the first record
\* whose checksum does not match.
C18_RangesFirst ==
    Validated /\ Problems # {} =>
        call.ret = ErrorOf(call.args[1][First(IF Outside # {} THEN Outside ELSE Problems)],
                           call.pre.data)

\* The first record has a wrong checksum, the range of the second exceeds
\* the buffer, and the error is that of the second.
C18_Witness ==
    /\ Validated
    /\ Len(call.args[1]) = 2
    /\ call.args[1][1].tag = RecName.tag
    /\ call.args[1][2].tag = RecLoca.tag
    /\ call.ret = Err(OutOfBounds(64, 8))

\* C19: the parallel path, whatever the order in which its tasks complete,
\* returns what the sequential path returns for the same directory and
\* buffer: Ok in the same cases and the same error otherwise, which for
\* mismatches is that of the first mismatching record in directory order.
C19_ParallelAsSequential ==
    Validated /\ call.args[2] = "parallel" =>
        /\ call.ret = validate_snft_tables(call.args[1], call.pre, overflow_checks).ret
        /\ Outside = {} /\ Mismatching # {} =>
              call.ret = MismatchOf(call.args[1][First(Mismatching)], call.pre.data)

\* Both records mismatch, the task of the second completed first, and the
\* mismatch of the first was returned.
C19_Witness ==
    /\ Validated
    /\ call.args[2] = "parallel"
    /\ call.args[3] = <<2, 1>>
    /\ Mismatching = {1, 2}
    /\ call.args[1][1].tag # call.args[1][2].tag
    /\ call.ret.kind = "Err"
    /\ call.ret.err.table = call.args[1][1].tag

\* The buffers that differ from d in the byte at index b (1-based), by one.
ChangedByOne(d, b) ==
    {[d EXCEPT ![b] = v] : v \in {d[b] - 1, d[b] + 1} \cap (0..255)}

\* The records of the validated directory that have the byte at index b in
\* their range, and those for whose checksum it counts.
Holding(b) == {i \in 1..Len(call.args[1]) : b \in RangeOf(call.args[1][i])}
Summing(b) == {i \in 1..Len(call.args[1]) : b \in SummedBy(call.args[1][i])}

\* The last call found the directory valid.
Valid == Validated /\ call.ret = Ok(Unit)

\* C20 (as claimed): when a directory and buffer are valid, changing by one
\* any byte of the region of any table makes validation return a
\* ChecksumMismatch with the tag and offset of that table, and leaves the
\* recomputed checksum of every other table as it was.
C20_ByteChangeDetected ==
    Valid =>
        \A i \in 1..Len(call.args[1]) :
            \A b \in RangeOf(call.args[1][i]) :
                \A d \in ChangedByOne(call.pre.data, b) :
                    /\ ValidationOf(d).kind = "Err"
                    /\ ValidationOf(d).err.type = "ChecksumMismatch"
                    /\ ValidationOf(d).err.table = call.args[1][i].tag
                    /\ ValidationOf(d).err.offset = as_usize(call.args[1][i].offset)
                    /\ \A j \in 1..Len(call.args[1]) :
                          j # i => Recomputed(call.args[1][j], d)
                                      = Recomputed(call.args[1][j], call.pre.data)

\* C20 (as the code has it): when a directory and buffer are valid, changing
\* by one a byte that counts for the checksum of some record makes
\* validation return the ChecksumMismatch of the first such record in
\* directory order, with its tag and offset; the recomputed checksum of
\* every record that does not have the byte in its range is as it was; and
\* changing a byte that counts for no record, as bytes 8 to 11 of a head
\* table do not, leaves the directory valid.
C20_SummedByteChangeDetected ==
    Valid =>
        \A i \in 1..Len(call.args[1]) :
            \A b \in RangeOf(call.args[1][i]) :
                \A d \in ChangedByOne(call.pre.data, b) :
                    /\ Summing(b) # {} =>
                          ValidationOf(d) = MismatchOf(call.args[1][First(Summing(b))], d)
                    /\ Summing(b) = {} => ValidationOf(d) = Ok(Unit)
                    /\ \A j \in 1..Len(call.args[1]) :
                          j \notin Holding(b) =>
                              Recomputed(call.args[1][j], d)
                                  = Recomputed(call.args[1][j], call.pre.data)

\* A directory of two tables that do not overlap, glyf and cmap, was found
\* valid.
C20_Witness ==
    /\ Valid
    /\ Len(call.args[1]) = 2
    /\ call.args[1][1].tag = RecGlyf.tag
    /\ call.args[1][2].tag = RecCmap.tag
    /\ RangeOf(call.args[1][1]) \cap RangeOf(call.args[1][2]) = {}
    /\ RangeOf(call.args[1][2]) # {}

\* ------------------------------------------------- pipeline properties
\* The last call was made on a buffer that begins with the 4 bytes sig.
BeginsWith(sig) ==
    /\ Len(call.pre.data) >= 4
    /\ BytesAt(call.pre.data, 0, 4) = sig

SigSFNT == <<0, 1, 0, 0>>
SigTRUE == <<116, 114, 117, 101>>
SigTYP1 == <<116, 121, 112, 49>>
SigOTTO == <<79, 84, 84, 79>>
SigWOFF == <<119, 79, 70, 70>>
SigWOF2 == <<119, 79, 70, 50>>
SigSVG == <<115, 118, 103, 32>>
Signatures == {SigSFNT, SigTRUE, SigTYP1, SigOTTO, SigWOFF, SigWOF2, SigSVG}

\* C21: for a buffer that begins with 'wOFF' or 'wOF2', decode_into and
\* decode_font_file return InvalidFormat, leave the cursor where it was (no
\* directory is parsed), and decode_into calls neither consume_snft nor
\* finish on the sink.
C21_WoffUnsupported ==
    /\ call.op \in {"decode_into", "decode_font_file"}
    /\ BeginsWith(SigWOFF) \/ BeginsWith(SigWOF2)
    => /\ call.ret = Err(InvalidFormat)
       /\ stream = call.pre
       /\ call.op = "decode_into" => sink.calls = <<>>

\* decode_into was given a buffer that begins with 'wOFF' and goes on as a
\* directory of one record.
C21_Witness ==
    /\ call.op = "decode_into"
    /\ BeginsWith(SigWOFF)
    /\ Len(call.pre.data) = 12 + 16 + Len(TableData)
    /\ PrePos = 0
    /\ call.ret = Err(InvalidFormat)

\* The last call was made on a buffer of at least 4 bytes whose signature is
\* none of the seven recognised ones (FontFileHeader::Unknown).
BeginsUnknown ==
    /\ Len(call.pre.data) >= 4
    /\ BytesAt(call.pre.data, 0, 4) \notin Signatures

\* C22: for a buffer classified as SVG, 'typ1' or Unknown, decode_into
\* returns InvalidFormat and calls neither consume_snft nor finish on the
\* sink (so no directory is handed over and no sink output is returned).
C22_NoDecoderUnsupported ==
    /\ call.op = "decode_into"
    /\ BeginsWith(SigSVG) \/ BeginsWith(SigTYP1) \/ BeginsUnknown
    => /\ call.ret = Err(InvalidFormat)
       /\ sink.calls = <<>>

\* The last call was decode_into on a buffer with one of the signatures of
\* the formats that carry a table directory.
DirectoryBearing ==
    /\ call.op = "decode_into"
    /\ BeginsWith(SigSFNT) \/ BeginsWith(SigTRUE) \/ BeginsWith(SigOTTO)

\* The records written after the 12-byte header at the start position of the
\* last call, n of them.
RecordsWritten(n) ==
    [i \in 1..n |->
        LET at == PrePos + 12 + 16 * (i - 1)
            d == call.pre.data
            e == call.pre.endianness IN
        [tag |-> BytesAt(d, at, 4),
         checksum |-> Field(d, at + 4, 4, e),
         offset |-> Field(d, at + 8, 4, e),
         length |-> Field(d, at + 12, 4, e)]]

\* C23: decode_into on a directory-bearing signature parses the directory,
\* then calls consume_snft, then finish. consume_snft is called at most once
\* and only when the parse succeeded, finish only when consume_snft
\* succeeded; the error of the first step that fails is the result, nothing
\* is called after it, and an output is returned only when all three
\* succeeded.
C23_StepsInOrder ==
    DirectoryBearing =>
        LET answers == call.args[1] IN
        IF C12_TooShort
        THEN /\ sink.calls = <<>>
             /\ call.ret.kind = "Err"
             /\ call.ret.err.type = "OutOfBounds"
        ELSE IF ~answers.consume_snft
        THEN /\ sink.calls = <<"consume_snft">>
             /\ call.ret = Err(SinkError("consume_snft"))
        ELSE IF ~answers.finish
        THEN /\ sink.calls = <<"consume_snft", "finish">>
             /\ call.ret = Err(SinkError("finish"))
        ELSE /\ sink.calls = <<"consume_snft", "finish">>
             /\ call.ret.kind = "Ok"
             /\ call.ret.val.snft_tables =
                    RecordsWritten(Field(call.pre.data, PrePos + 4, 2,
                                         call.pre.endianness))

\* A directory of one record was parsed and the sink refused it: finish was
\* not called and the sink's error came back.
C23_Witness ==
    /\ DirectoryBearing
    /\ PrePos = 0
    /\ Len(call.pre.data) = 12 + 16 + Len(TableData)
    /\ ~call.args[1].consume_snft
    /\ call.args[1].finish
    /\ sink.calls = <<"consume_snft">>
    /\ call.ret = Err(SinkError("consume_snft"))

\* A directory of one record went through the three steps.
C23_WitnessOutput ==
    /\ DirectoryBearing
    /\ sink.calls = <<"consume_snft", "finish">>
    /\ call.ret.kind = "Ok"
    /\ Len(call.ret.val.snft_tables) = 1

\* The directory was cut short: the sink was not called.
C23_WitnessParseFailed ==
    /\ DirectoryBearing
    /\ Len(call.pre.data) >= 12
    /\ sink.calls = <<>>
    /\ call.ret.kind = "Err"

\* C25: a successful read_snft started at position p leaves the cursor at
\* p + 12 + 16 * num_tables, num_tables being the header field as written;
\* with num_tables = 0 it succeeds with no records and consumes 12 bytes. A
\* failed read_snft leaves the cursor at the start of the first field that
\* could not be read, not at p.
C25_EndPosition ==
    call.op = "read_snft" =>
        /\ call.ret.kind = "Ok" =>
              LET n == Field(call.pre.data, PrePos + 4, 2, call.pre.endianness) IN
              /\ stream.position = PrePos + 12 + 16 * n
              /\ n = 0 => /\ call.ret.val.tables = <<>>
                          /\ stream.position = PrePos + 12
        /\ call.ret.kind = "Ok" <=> ~C12_TooShort
        /\ call.ret.kind = "Err" =>
              /\ stream.position = PrePos + C12_FieldStart(PreAvail)
              /\ PreAvail >= 4 => stream.position > PrePos

\* A header with num_tables = 0 was parsed from position 0.
C25_Witness ==
    /\ Parsed
    /\ PrePos = 0
    /\ call.ret.val.header.num_tables = 0
    /\ call.ret.val.tables = <<>>
    /\ stream.position = 12

\* A directory of two was cut inside its second record: the cursor stays
\* after the fields that were read.
C25_WitnessFailed ==
    /\ call.op = "read_snft"
    /\ PrePos = 0
    /\ call.ret.kind = "Err"
    /\ stream.position > 12 + 16

\* ------------------------------------------------ interleaving properties
\* The calls that fetch by absolute offset, validation among them (par_iter
\* is a parallel validation between its slices and its return).
AbsoluteOps == {"validate_snft_tables", "par_iter", "read_at_u32", "slice_range"}

\* C24: checksum validation and the absolute fetches leave the position and
\* the buffer as they were, whether they succeed or fail; a parse made step
\* by step with such calls in between stands after the records it has read,
\* and ends with the result and at the position of a read_snft run from the
\* same start with nothing in between.
C24_ValidationKeepsCursor ==
    /\ call.op \in AbsoluteOps => stream = call.pre
    /\ parser.pc = "entries" =>
          stream.position = parser.start + 12 + 16 * Len(snft.v.tables)
    /\ parser.pc = "done" =>
          LET whole == read_snft([stream EXCEPT !.position = parser.start]) IN
          /\ parser.ret = whole.ret
          /\ stream = whole.self

\* The parse of a directory of two records stands between its two records:
\* the first has just been validated, with no mismatch, and the cursor is
\* where the second begins.
C24_Witness ==
    /\ parser.pc = "entries"
    /\ parser.start = 0
    /\ Len(snft.v.tables) = 1
    /\ snft.v.header.num_tables = 2
    /\ call.op = "validate_snft_tables"
    /\ call.ret = Ok(Unit)
    /\ stream.position = 12 + 16

\* A validation between the two records failed with a mismatch.
C24_WitnessMismatch ==
    /\ parser.pc = "entries"
    /\ Len(snft.v.tables) = 1
    /\ call.op = "validate_snft_tables"
    /\ call.ret.kind = "Err"
    /\ call.ret.err.type = "ChecksumMismatch"
    /\ stream.position = 12 + 16

\* A parse from position 4 ended after a parallel validation.
C24_WitnessParallel ==
    /\ parser.pc = "done"
    /\ parser.start = 4
    /\ call.op = "validate_snft_tables"
    /\ call.args[2] = "parallel"

\* A validation panicked on an end that overflows and the stream is as it
\* was.
C24_WitnessPanic ==
    /\ call.op = "validate_snft_tables"
    /\ call.ret = Panic
    /\ stream.position = 12 + 16 + 16
====
